---------------------------- MODULE Spec2Model ----------------------------
(***************************************************************************)
(* Model of the multi-source aggregation and ranking engine of the travel  *)
(* planner: the flight / train / bus / hotel / restaurant searches of      *)
(* backend/app/agents (fan-out, merge, rank, fallback cascade).            *)
(* Spec covers the searches, plan_trip and modify_itinerary; RankSpec the   *)
(* flight ranking over responses longer than the returned list;            *)
(* SessionSpec concurrent calls of the modify endpoint on one session;     *)
(* EnrichSpec repeated enrichment of one itinerary.                        *)
(*                                                                         *)
(* Conventions                                                             *)
(*   - a Python dict is a record; a key that the code may leave out is     *)
(*     kept in the record with the value Absent (numbers), {} (sets) or    *)
(*     "" (badge) for flights, trains and buses, and is left out of the    *)
(*     record for hotels and restaurants (read with Get);                  *)
(*   - Python None in a numeric field is PyNone, a str in a numeric field  *)
(*     is PyStr;                                                           *)
(*   - names are sequences of characters so that lower(), replace() and    *)
(*     slicing are computed and not assumed;                               *)
(*   - value_score is kept times 3000 so that it stays an integer.         *)
(***************************************************************************)
EXTENDS Integers, Sequences, FiniteSets, TLC

VARIABLES
    op,          \* the public operation in progress
    cfg,         \* configuration and arguments of the call
    pc,          \* position of the handler (its next suspension point)
    task,        \* fan-out: adapter -> "idle" | "pending" | "done"
    raised,      \* the provider and text-completion calls that failed
    results,     \* fan-out: adapter -> what the (wrapped) adapter call returned
    all_offers,  \* all_flights / the adapters' hotels, as collected after the join
    offers,      \* the offer list of the result (flights, trains, buses, hotels, restaurants)
    apis_used,   \* flights: result["apis_used"]
    api_stats,   \* flights: result["api_stats"], a set of <<name, count>>
    summary,     \* result["search_summary"], by kind
    invoked,     \* the tiers invoked during the search
    outcome,     \* "running" | "returned" | "raised"
    itinerary,   \* modify_itinerary: the slots of result["modified_itinerary"]
    batch,       \* batch enrichment: the index i of the loop over the batches
    completed,   \* flights: the adapters in the order in which their calls completed
    result,      \* plan_trip / process_modification: the result dict
    store,       \* current_itinerary_store[session_id] of main.py
    req          \* the modification requests of the session that are in flight

vars == <<op, cfg, pc, task, raised, results, all_offers, offers,
          apis_used, api_stats, summary, invoked, outcome, itinerary, batch,
          completed, result, store, req>>

----------------------------------------------------------------------------
(* Python values *)

PyNone == 0 - 1
Absent == 0 - 2
PyStr  == 0 - 3

IsNumber(v) == v >= 0

Take(s, n) == SubSeq(s, 1, IF Len(s) < n THEN Len(s) ELSE n)

Range(s) == {s[i] : i \in 1..Len(s)}

RECURSIVE Concat(_)
Concat(ss) == IF ss = <<>> THEN <<>> ELSE Head(ss) \o Concat(Tail(ss))

Min(S) == CHOOSE x \in S : \A y \in S : x <= y

\* In the operators below keys[i] is the key of s[i]: [K(x) for x in s].

\* an ascending order in which, of two equal keys, the later element comes first
RankAscLastFirst(keys, i) ==
    Cardinality({j \in 1..Len(keys) : keys[j] < keys[i] \/ (keys[j] = keys[i] /\ j > i)}) + 1

\* the place of s[i] in the stable ascending order of the keys
RankAsc(keys, i) ==
    Cardinality({j \in 1..Len(keys) : keys[j] < keys[i] \/ (keys[j] = keys[i] /\ j < i)}) + 1

\* list.sort(key=K) and sorted(.., key=K): stable, ascending
SortAsc(s, keys) ==
    [r \in 1..Len(s) |-> s[CHOOSE i \in 1..Len(s) : RankAsc(keys, i) = r]]

\* the place of s[i] in the stable descending order of the keys
RankDesc(keys, i) ==
    Cardinality({j \in 1..Len(keys) : keys[j] > keys[i] \/ (keys[j] = keys[i] /\ j < i)}) + 1

\* list.sort(key=K, reverse=True): stable, descending
SortDesc(s, keys) ==
    [r \in 1..Len(s) |-> s[CHOOSE i \in 1..Len(s) : RankDesc(keys, i) = r]]

\* index of sorted(s, key=K)[0]: the first of the elements with the least key
ArgMin(keys) ==
    CHOOSE i \in 1..Len(keys) :
        \A j \in 1..Len(keys) : keys[i] < keys[j] \/ (keys[i] = keys[j] /\ i <= j)

----------------------------------------------------------------------------
(* Strings *)

LowerChar(c) ==
    CASE c = "A" -> "a"
      [] c = "I" -> "i"
      [] c = "V" -> "v"
      [] c = "T" -> "t"
      [] c = "O" -> "o"
      [] OTHER   -> c

Lower(s) == [i \in 1..Len(s) |-> LowerChar(s[i])]

RECURSIVE Remove(_, _)
Remove(s, c) ==
    IF s = <<>> THEN <<>>
    ELSE IF Head(s) = c THEN Remove(Tail(s), c)
    ELSE <<Head(s)>> \o Remove(Tail(s), c)


----------------------------------------------------------------------------
(* Flights: records, adapters' parsing, merge, badges *)

FlightApiNames == <<"Google Flights", "Booking.com", "Amadeus">>

\* The itineraries a provider may list.  The first two differ only in the
\* case of the airline name; the third and the fourth are other departures
\* of the airline, one with a stop and one a little slower than the first.
Listings ==
    { [airline |-> <<"A", "i">>, departure_time |-> "06:00", arrival_time |-> "08:00",
       num_stops |-> 0, duration_minutes |-> 120],
      [airline |-> <<"a", "i">>, departure_time |-> "06:00", arrival_time |-> "08:00",
       num_stops |-> 0, duration_minutes |-> 120],
      [airline |-> <<"A", "i">>, departure_time |-> "14:00", arrival_time |-> "17:00",
       num_stops |-> 1, duration_minutes |-> 180],
      [airline |-> <<"A", "i">>, departure_time |-> "09:00", arrival_time |-> "11:05",
       num_stops |-> 0, duration_minutes |-> 125] }

Prices == {5000, 5200}

\* the first listing is quoted at every price, and with a null or a missing
\* price; the others at the lower price, the one with a stop at both
Quoted(l, p) ==
    \/ l.airline = <<"A", "i">> /\ l.departure_time = "06:00"
    \/ p = 5000
    \/ p = 5200 /\ l.num_stops = 1

\* a provider's record: the price may be null or missing
RawFlights ==
    { r \in [listing : Listings, price : Prices \cup {PyNone, Absent}] :
        Quoted(r.listing, r.price) }

NewFlight(l, price, real, source) ==
    [airline |-> l.airline, departure_time |-> l.departure_time,
     arrival_time |-> l.arrival_time, num_stops |-> l.num_stops,
     duration_minutes |-> l.duration_minutes, price_per_person |-> price,
     is_real_data |-> real, data_source |-> source,
     found_in_apis |-> {}, price_comparison |-> {}, value_score |-> Absent, badge |-> ""]

LongConnection == 480

\* one record of _parse_google_flights / _parse_booking_flights / _parse_amadeus_flights:
\* a missing price defaults to 0, a null price raises inside the per-record try
\* and the record is skipped
ParseFlight(raw, api) ==
    LET l == raw.listing
        price == IF raw.price = Absent THEN 0 ELSE raw.price
    IN  IF raw.price = PyNone THEN <<>>
        ELSE IF api = "Booking.com" /\ l.duration_minutes > LongConnection /\ l.num_stops > 0
             THEN <<>>
        ELSE <<NewFlight(l, price, TRUE, api)>>

ParseCap == 20

ParseFlights(raws, api) ==
    LET r == Take(raws, ParseCap)
    IN  Concat([i \in 1..Len(r) |-> ParseFlight(r[i], api)])

FlightKey(f) ==
    <<Lower(f.airline), f.departure_time, f.arrival_time, f.num_stops>>

\* dict lookup: the position of the entry of seen with this key, 0 if none
SeenAt(keys, key) ==
    IF \E i \in 1..Len(keys) : keys[i] = key
    THEN CHOOSE i \in 1..Len(keys) : keys[i] = key
    ELSE 0

\* price_comparison = {existing source: existing price, this source: this price}
PriceComparison(existing, flight) ==
    IF existing.data_source = flight.data_source
    THEN {<<flight.data_source, flight.price_per_person>>}
    ELSE {<<existing.data_source, existing.price_per_person>>,
          <<flight.data_source, flight.price_per_person>>}

\* the condition under which the loop of _merge_and_deduplicate replaces
\* the entry of seen
\* the comparison reversed: the dearer offer replaces the one kept
KeepsDearer(flight, existing) == flight.price_per_person > existing.price_per_person

KeepsNew(flight, existing) == flight.price_per_person < existing.price_per_person

\* every flight appended, whatever its key
AppendEach(seen, flight) ==
    Append(seen, [flight EXCEPT !.found_in_apis = {flight.data_source}])

\* one iteration of the loop of _merge_and_deduplicate
MergeStep(seen, flight) ==
    LET i == SeenAt([k \in 1..Len(seen) |-> FlightKey(seen[k])], FlightKey(flight))
    IN  IF i = 0
        THEN Append(seen, [flight EXCEPT !.found_in_apis = {flight.data_source}])
        ELSE IF KeepsNew(flight, seen[i])
        THEN [seen EXCEPT ![i] =
                 [flight EXCEPT !.found_in_apis = seen[i].found_in_apis \cup {flight.data_source},
                                !.price_comparison = PriceComparison(seen[i], flight)]]
        ELSE seen

Perms(n) == { p \in [1..n -> 1..n] : \A i, j \in 1..n : p[i] = p[j] => i = j }

Permute(s, p) == [i \in 1..Len(s) |-> s[p[i]]]

\* _merge_and_deduplicate: list(seen.values()) keeps the keys' insertion order
MergeAndDeduplicate(flights) ==
    LET f[i \in 0..Len(flights)] ==
            IF i = 0 THEN <<>> ELSE MergeStep(f[i - 1], flights[i])
    IN  f[Len(flights)]

PriceOf(f) == f.price_per_person
DurationOf(f) == f.duration_minutes

\* value_score = price/1000 + duration/60 + 2*stops, times 3000
ValueScore(f) == 3 * f.price_per_person + 50 * f.duration_minutes + 6000 * f.num_stops
ValueOf(f) == f.value_score

\* badges given to every offer that has the least price
AddBadgesToTies(flights) ==
    LET c == ArgMin([k \in 1..Len(flights) |-> PriceOf(flights[k])])
    IN  [i \in 1..Len(flights) |->
            [flights[i] EXCEPT !.badge = IF PriceOf(flights[i]) = PriceOf(flights[c])
                                         THEN "Cheapest" ELSE "Good Option"]]

\* _add_badges on a non-empty list; a badge "" is a dict without the key
AddBadges(flights) ==
    IF flights = <<>> THEN flights
    ELSE
    LET scored == [i \in 1..Len(flights) |->
                      [flights[i] EXCEPT !.value_score = ValueScore(flights[i])]]
        c == ArgMin([k \in 1..Len(scored) |-> PriceOf(scored[k])])
        d == ArgMin([k \in 1..Len(scored) |-> DurationOf(scored[k])])
        v == ArgMin([k \in 1..Len(scored) |-> ValueOf(scored[k])])
        Badge(i) ==
            IF i = v /\ v \notin {c, d} THEN "Best Value"
            ELSE IF i = d /\ d # c THEN "Fastest"
            ELSE IF i = c THEN "Cheapest"
            ELSE IF scored[i].badge = "" THEN "Good Option"
            ELSE scored[i].badge
    IN  [i \in 1..Len(scored) |-> [scored[i] EXCEPT !.badge = Badge(i)]]


----------------------------------------------------------------------------
(* Text-completion replies (the generative tier) *)

MaxReply == 2

\* what the reply gives for is_real_data: true, false, or nothing
GivenFlags == {"true", "false", "absent"}

\* one element of the JSON array of a reply
ReplyItems ==
    { [listing |-> l, price |-> p, is_real_data |-> g] :
        l \in {x \in Listings : x.airline = <<"A", "i">>},
        p \in Prices \cup {Absent, PyNone, PyStr}, g \in GivenFlags }

SeqsUpTo(S, n) == UNION { [1..k -> S] : k \in 0..n }

\* a reply: the call failed, the text did not parse as a JSON array, or an array
Replies ==
    { [kind |-> "error", items |-> <<>>], [kind |-> "unparseable", items |-> <<>>] }
    \cup { [kind |-> "list", items |-> xs] : xs \in SeqsUpTo(ReplyItems, MaxReply) }

AiFlightCap == 3

\* _get_serper_flights: the bare except turns every failure into []
GetSerperFlights(reply) ==
    LET xs == Take(reply.items, AiFlightCap)
    IN  IF reply.kind # "list" THEN <<>>
        ELSE IF \E i \in 1..Len(xs) : xs[i].price = PyNone THEN <<>>
        ELSE [i \in 1..Len(xs) |->
                 [NewFlight(xs[i].listing,
                            IF xs[i].price = Absent THEN 5000 ELSE xs[i].price,
                            FALSE, "AI Estimate")
                  EXCEPT !.duration_minutes = 120, !.num_stops = 0]]

----------------------------------------------------------------------------
(* search_travel_options, travel_type = "flight" *)

MaxOffers == 3

MaxTrains == 3

MaxHotels == 2

MaxPlaces == 2

MaxPlaceSlots == 5

MaxMealSlots == 5

TopN == 5

\* the adapters _search_flights_parallel launches
FlightApis(c) ==
    IF c.amadeus THEN <<"Google Flights", "Booking.com", "Amadeus">>
    ELSE <<"Google Flights", "Booking.com">>

\* what a provider call ends with: it raises, it times out, a non-200 answer,
\* or a payload
Failures == {"raise", "timeout"}

\* a wrapper that lets the exception through to asyncio.gather
UnsafeCall(kind, value) ==
    IF kind \in Failures THEN [kind |-> kind, value |-> <<>>]
    ELSE [kind |-> "ok", value |-> value]

\* _search_*_flights_safe: try / except Exception -> []
SafeCall(kind, value) ==
    IF kind \in Failures THEN [kind |-> "ok", value |-> <<>>]
    ELSE [kind |-> "ok", value |-> value]

Returned(c) == Len(Concat([i \in 1..Len(FlightApis(c)) |-> results[FlightApis(c)[i]].value]))

\* _generate_summary of travel_booking_agent: min() over mixed str and int
\* raises TypeError, the "," format of a str raises ValueError
SummaryRaises(flights) == \E i \in 1..Len(flights) : flights[i].price_per_person = PyStr

GenerateSummary(flights) ==
    IF flights = <<>> THEN "No flights found for this route."
    ELSE IF flights[ArgMin([k \in 1..Len(flights) |-> PriceOf(flights[k])])].is_real_data = TRUE THEN "LIVE"
    ELSE "Est"

\* the end of search_travel_options: the summary, then return
Finish(list) ==
    IF op \in {"flights", "trains", "buses"} /\ SummaryRaises(IF op = "flights" THEN list ELSE <<>>)
    THEN /\ outcome' = "raised"
         /\ offers' = <<>>
         /\ summary' = ""
    ELSE /\ outcome' = "returned"
         /\ offers' = list
         /\ summary' = GenerateSummary(IF op = "flights" THEN list ELSE <<>>)

LaunchFlights ==
    /\ op = "flights" /\ pc = "start"
    /\ task' = [a \in DOMAIN task |->
                   IF a \in Range(FlightApis(cfg)) THEN "pending" ELSE task[a]]
    /\ invoked' = invoked \cup {"primary"}
    /\ pc' = "gather"
    /\ UNCHANGED <<completed, result, store, req>>
    /\ UNCHANGED <<itinerary, batch, op, cfg, raised, results, all_offers, offers, apis_used,
                   api_stats, summary, outcome>>

\* one adapter call of the fan-out ends
FlightAdapterReturns(a) ==
    /\ op = "flights" /\ pc = "gather" /\ task[a] = "pending"
    /\ \/ \E f \in Failures :
            /\ raised' = raised \cup {a}
            /\ results' = [results EXCEPT ![a] = SafeCall(f, <<>>)]
       \/ \E raws \in SeqsUpTo(RawFlights, MaxOffers - Returned(cfg)) :
            /\ raised' = raised
            /\ results' = [results EXCEPT ![a] = SafeCall("payload", ParseFlights(raws, a))]
    /\ task' = [task EXCEPT ![a] = "done"]
    /\ completed' = Append(completed, a)
    /\ UNCHANGED <<result, store, req>>
    /\ UNCHANGED <<itinerary, batch, op, cfg, pc, all_offers, offers, apis_used, api_stats,
                   summary, invoked, outcome>>

\* the results taken in the order in which the calls completed
CollectedAsCompleted(c) ==
    Concat([i \in 1..Len(completed) |-> results[completed[i]].value])

\* the loop over zip(results, api_names)
Collected(c) ==
    LET apis == FlightApis(c)
    IN  Concat([i \in 1..Len(apis) |-> results[apis[i]].value])

ApisUsed(c) ==
    LET apis == FlightApis(c)
    IN  Concat([i \in 1..Len(apis) |->
                   IF Len(results[apis[i]].value) > 0 THEN <<apis[i]>> ELSE <<>>])

ApiStats(c) == { <<a, Len(results[a].value)>> : a \in Range(FlightApis(c)) }

\* the generative estimate asked for in every case
AlwaysFallback(merged_flights) == TRUE

\* the generative estimate never asked for
NeverFallback(merged_flights) == FALSE

\* "if not merged_flights": the generative estimate is asked for
NeedsFallback(merged_flights) == merged_flights = <<>>

\* "Sort by price and add badges"
RankFlights(flights) ==
    AddBadges(SortAsc(flights, [k \in 1..Len(flights) |-> PriceOf(flights[k])]))

\* asyncio.gather returned: collect, merge, sort, badge; then either the
\* result is returned or the generative call is awaited
FlightsJoin ==
    /\ op = "flights" /\ pc = "gather"
    /\ \A a \in Range(FlightApis(cfg)) : task[a] = "done"
    /\ IF \E a \in Range(FlightApis(cfg)) : results[a].kind # "ok"
       THEN /\ pc' = "done"
            /\ outcome' = "raised"
            /\ UNCHANGED <<all_offers, offers, apis_used, api_stats, summary, invoked>>
       ELSE LET merged == RankFlights(MergeAndDeduplicate(Collected(cfg)))
            IN  /\ all_offers' = Collected(cfg)
                /\ api_stats' = ApiStats(cfg)
                /\ IF NeedsFallback(merged)
                   THEN /\ pc' = "fallback"
                        /\ invoked' = invoked \cup {"generative"}
                        /\ apis_used' = ApisUsed(cfg)
                        /\ UNCHANGED <<offers, summary, outcome>>
                   ELSE /\ pc' = "done"
                        /\ apis_used' = ApisUsed(cfg)
                        /\ Finish(Take(merged, TopN))
                        /\ UNCHANGED invoked
    /\ UNCHANGED <<completed, result, store, req>>
    /\ UNCHANGED <<itinerary, batch, op, cfg, task, raised, results>>

\* _get_serper_flights returned
FlightFallbackReturns ==
    /\ op = "flights" /\ pc = "fallback"
    /\ \E reply \in Replies :
         LET flights == GetSerperFlights(reply)
         IN  /\ apis_used' = <<"AI Estimate">>
             /\ api_stats' = api_stats \cup {<<"AI Estimate", Len(flights)>>}
             /\ raised' = IF reply.kind # "list" THEN raised \cup {"AI Estimate"} ELSE raised
             /\ Finish(Take(flights, TopN))
    /\ pc' = "done"
    /\ UNCHANGED <<completed, result, store, req>>
    /\ UNCHANGED <<itinerary, batch, op, cfg, task, results, all_offers, invoked>>

----------------------------------------------------------------------------
(* search_travel_options, travel_type = "train" and "bus" *)

TrainNumbers == {"12951", "12953"}

\* a record of the Rail Info payload
RawTrains ==
    { [train_no |-> n, train_type |-> t, total_duration_minutes |-> d] :
        n \in TrainNumbers, t \in {"express", "rajdhani"}, d \in {480, 960, Absent} }

\* _estimate_train_fare(duration_mins, "SL"):
\* max(int(max(duration / 60 * 80, 500) * 0.45), 350)
EstimateTrainFare(duration_mins) ==
    LET fare == IF 4 * duration_mins >= 1500 THEN (3 * duration_mins) \div 5 ELSE 225
    IN  IF fare > 350 THEN fare ELSE 350

NewTrain(number, type, duration, price, real, source) ==
    [train_number |-> number, train_type |-> type, duration_minutes |-> duration,
     price_per_person |-> price, is_real_data |-> real, data_source |-> source,
     badge |-> ""]

\* one record of _parse_railinfo_trains
ParseRailinfoTrain(raw) ==
    LET duration == IF raw.total_duration_minutes = Absent THEN 10 * 30
                    ELSE raw.total_duration_minutes
        fare == EstimateTrainFare(duration)
        price == IF raw.train_type = "rajdhani" THEN (5 * fare) \div 2 ELSE fare
    IN  NewTrain(raw.train_no, raw.train_type, duration, price, TRUE, "Rail Info API")

TrainCap == 15

ParseRailinfoTrains(raws) ==
    LET r == Take(raws, TrainCap)
    IN  [i \in 1..Len(r) |-> ParseRailinfoTrain(r[i])]

TrainReplyItems ==
    { [train_number |-> n, sleeper_fare |-> p, is_real_data |-> g] :
        n \in TrainNumbers, p \in {600, Absent, PyNone, PyStr}, g \in GivenFlags }

TrainReplies ==
    { [kind |-> "error", items |-> <<>>], [kind |-> "unparseable", items |-> <<>>] }
    \cup { [kind |-> "list", items |-> xs] : xs \in SeqsUpTo(TrainReplyItems, MaxReply) }

AiTrainCap == 3

\* _get_ai_trains
GetAiTrains(reply) ==
    LET xs == Take(reply.items, AiTrainCap)
    IN  IF reply.kind # "list" THEN <<>>
        ELSE IF \E i \in 1..Len(xs) : xs[i].sleeper_fare = PyNone THEN <<>>
        ELSE [i \in 1..Len(xs) |->
                 NewTrain(xs[i].train_number, "Express", 480,
                          IF xs[i].sleeper_fare = Absent THEN 500 ELSE xs[i].sleeper_fare,
                          FALSE, "AI Estimate")]

\* sorting a list whose keys are str and int raises TypeError
SortRaises(list) ==
    \E i, j \in 1..Len(list) :
        list[i].price_per_person = PyStr /\ list[j].price_per_person # PyStr

\* _add_train_badges
AddTrainBadges(trains) ==
    IF trains = <<>> THEN trains
    ELSE
    LET c == ArgMin([k \in 1..Len(trains) |-> PriceOf(trains[k])])
        d == ArgMin([k \in 1..Len(trains) |-> DurationOf(trains[k])])
        Badge(i) ==
            IF i = d /\ d # c THEN "Fastest"
            ELSE IF i = c THEN "Cheapest"
            ELSE IF trains[i].badge = "" THEN "Good Option"
            ELSE trains[i].badge
    IN  [i \in 1..Len(trains) |-> [trains[i] EXCEPT !.badge = Badge(i)]]

\* "Sort and add badges"
RankTrains(trains) ==
    AddTrainBadges(SortAsc(trains, [k \in 1..Len(trains) |-> PriceOf(trains[k])]))

\* the end of _search_trains: sort, badges, top 5; then the summary
FinishTrains(trains) ==
    IF SortRaises(trains)
    THEN /\ outcome' = "raised"
         /\ offers' = <<>>
         /\ summary' = ""
    ELSE Finish(Take(RankTrains(trains), TopN))

StartTrains ==
    /\ op = "trains" /\ pc = "start"
    /\ pc' = "train_primary"
    /\ invoked' = invoked \cup {"primary"}
    /\ UNCHANGED <<completed, result, store, req>>
    /\ UNCHANGED <<itinerary, batch, op, cfg, task, raised, results, all_offers, offers, apis_used,
                   api_stats, summary, outcome>>

\* _search_railinfo_trains_safe returned
TrainPrimaryReturns ==
    /\ op = "trains" /\ pc = "train_primary"
    /\ \E out \in [kind : Failures, raws : {<<>>}]
                  \cup [kind : {"payload"}, raws : SeqsUpTo(RawTrains, MaxTrains)] :
         LET trains == SafeCall(out.kind, ParseRailinfoTrains(out.raws)).value
         IN  /\ raised' = IF out.kind \in Failures THEN {"Rail Info API"} ELSE {}
             /\ all_offers' = trains
             /\ IF trains # <<>>
                THEN /\ pc' = "done"
                     /\ FinishTrains(trains)
                     /\ UNCHANGED invoked
                ELSE /\ pc' = "train_fallback"
                     /\ invoked' = invoked \cup {"generative"}
                     /\ UNCHANGED <<offers, summary, outcome>>
    /\ UNCHANGED <<completed, result, store, req>>
    /\ UNCHANGED <<itinerary, batch, op, cfg, task, results, apis_used, api_stats>>

\* _get_ai_trains returned
TrainFallbackReturns ==
    /\ op = "trains" /\ pc = "train_fallback"
    /\ \E reply \in TrainReplies :
         /\ raised' = IF reply.kind # "list" THEN raised \cup {"AI Estimate"} ELSE raised
         /\ FinishTrains(GetAiTrains(reply))
    /\ pc' = "done"
    /\ UNCHANGED <<completed, result, store, req>>
    /\ UNCHANGED <<itinerary, batch, op, cfg, task, results, all_offers, apis_used, api_stats,
                   invoked>>

BusReplyItems ==
    { [bus_type |-> t, price |-> p, is_real_data |-> g] :
        t \in {"Sleeper", "AC Seater"}, p \in {900, Absent, PyNone, PyStr}, g \in GivenFlags }

BusReplies ==
    { [kind |-> "error", items |-> <<>>], [kind |-> "unparseable", items |-> <<>>] }
    \cup { [kind |-> "list", items |-> xs] : xs \in SeqsUpTo(BusReplyItems, MaxReply) }

AiBusCap == 4

\* _get_ai_buses
GetAiBuses(reply) ==
    LET xs == Take(reply.items, AiBusCap)
    IN  IF reply.kind # "list" THEN <<>>
        ELSE IF \E i \in 1..Len(xs) : xs[i].price = PyNone THEN <<>>
        ELSE [i \in 1..Len(xs) |->
                 [bus_type |-> xs[i].bus_type,
                  price_per_person |-> IF xs[i].price = Absent THEN 800 ELSE xs[i].price,
                  is_real_data |-> FALSE, data_source |-> "AI Estimate (RedBus prices)",
                  badge |-> ""]]

\* _add_bus_badges
AddBusBadges(buses) ==
    IF buses = <<>> THEN buses
    ELSE
    LET c == ArgMin([k \in 1..Len(buses) |-> PriceOf(buses[k])])
        Badge(i) ==
            IF i = c THEN "Cheapest"
            ELSE IF buses[i].badge # "" THEN buses[i].badge
            ELSE IF buses[i].bus_type = "AC Seater" THEN "Premium"
            ELSE "Good Option"
    IN  [i \in 1..Len(buses) |-> [buses[i] EXCEPT !.badge = Badge(i)]]

StartBuses ==
    /\ op = "buses" /\ pc = "start"
    /\ pc' = "bus_ai"
    /\ invoked' = invoked \cup {"generative"}
    /\ UNCHANGED <<completed, result, store, req>>
    /\ UNCHANGED <<itinerary, batch, op, cfg, task, raised, results, all_offers, offers, apis_used,
                   api_stats, summary, outcome>>

\* _get_ai_buses returned; the rest of _search_buses, then the summary
BusReturns ==
    /\ op = "buses" /\ pc = "bus_ai"
    /\ \E reply \in BusReplies :
         LET buses == GetAiBuses(reply)
         IN  /\ raised' = IF reply.kind # "list" THEN raised \cup {"AI Estimate"} ELSE raised
             /\ IF SortRaises(buses)
                THEN /\ outcome' = "raised"
                     /\ offers' = <<>>
                     /\ summary' = ""
                ELSE Finish(Take(AddBusBadges(buses), TopN))
    /\ pc' = "done"
    /\ UNCHANGED <<completed, result, store, req>>
    /\ UNCHANGED <<itinerary, batch, op, cfg, task, results, all_offers, apis_used, api_stats,
                   invoked>>

----------------------------------------------------------------------------
(* search_hotels *)

\* d.get(k, default)
Get(d, k, default) == IF k \in DOMAIN d THEN d[k] ELSE default

HotelApiNames == <<"Booking.com (v1)", "Booking.com (Things4u)">>

HotelNames ==
    { <<"T", "a", " ", "V", "i">>, <<"t", "a", "-", "v", "i">>, <<"O", "a", "t">>, <<>> }

\* a record of a Booking.com payload: name, grossPrice.value, reviewScore
RawHotels ==
    { [name |-> n, price |-> p, review_score |-> r] :
        n \in HotelNames, p \in {3000, 9000, Absent}, r \in {60, 80, PyNone} }

NewHotel(raw, total, nights, source) ==
    [name |-> raw.name, price_total |-> total, price_with_taxes |-> total,
     price_per_night |-> total \div nights, review_score |-> raw.review_score,
     is_real_data |-> TRUE, is_preferred |-> FALSE, data_source |-> source]

HotelParseCap == 15

\* the sort key of _parse_hotel_results, (review_score, -price_total), as one number
ReviewKey(h) == h.review_score * 100000 - h.price_total

\* comparing None with a number raises TypeError
ReviewSortRaises(hotels) ==
    \E i, j \in 1..Len(hotels) :
        hotels[i].review_score = PyNone /\ hotels[j].review_score # PyNone

\* _search_booking_com with _parse_hotel_results
ParseHotelResults(raws, nights) ==
    LET r == Take(raws, HotelParseCap)
        hotels == [i \in 1..Len(r) |->
                      NewHotel(r[i], IF r[i].price = Absent THEN 0 ELSE r[i].price,
                               nights, "Booking.com")]
    IN  IF ReviewSortRaises(hotels) THEN <<>>
        ELSE SortDesc(hotels, [k \in 1..Len(hotels) |-> ReviewKey(hotels[k])])

\* one record of the loop of _search_booking_com_v2
ParseHotelV2(raw, budget, nights) ==
    LET total == IF raw.price = Absent THEN 0 ELSE raw.price
    IN  IF total = 0 THEN <<>>
        ELSE IF raw.review_score = PyNone THEN <<>>
        ELSE IF budget # PyNone /\ 2 * (total \div nights) > 3 * budget THEN <<>>
        ELSE <<NewHotel(raw, total, nights, "Booking.com (Things4u)")>>

SearchBookingComV2(raws, budget, nights) ==
    LET r == Take(raws, HotelParseCap)
    IN  Concat([i \in 1..Len(r) |-> ParseHotelV2(r[i], budget, nights)])

HotelKeyLen == 30

HotelKey(h) == Take(Remove(Remove(Lower(h.name), " "), "-"), HotelKeyLen)

\* one turn of the loop over the hotels of a result; seen_hotels is the set of
\* the keys of all_hotels
DedupStep(all_hotels, hotel) ==
    LET key == HotelKey(hotel)
        p == SeenAt([k \in 1..Len(all_hotels) |-> HotelKey(all_hotels[k])], key)
    IN  IF key = <<>> THEN all_hotels
        ELSE IF p = 0 THEN Append(all_hotels, hotel)
        ELSE IF hotel.price_total < all_hotels[p].price_total
        THEN Append(SubSeq(all_hotels, 1, p - 1) \o SubSeq(all_hotels, p + 1, Len(all_hotels)),
                    hotel)
        ELSE all_hotels

\* the de-duplication loop of _search_hotels_multi_api
DedupHotels(hotels) ==
    LET f[i \in 0..Len(hotels)] == IF i = 0 THEN <<>> ELSE DedupStep(f[i - 1], hotels[i])
    IN  f[Len(hotels)]

\* an item of the JSON array the language model returns
HotelReplyItems ==
    { [name |-> <<"O", "a", "t">>, price_total |-> 5000, review_score |-> 80,
       is_real_data |-> g] : g \in GivenFlags }

HotelReplies ==
    { [kind |-> "error", items |-> <<>>], [kind |-> "unparseable", items |-> <<>>] }
    \cup { [kind |-> "list", items |-> xs] : xs \in SeqsUpTo(HotelReplyItems, MaxReply) }

\* a dict with or without the key is_real_data
WithFlag(d, g) == IF g = "absent" THEN d ELSE [is_real_data |-> (g = "true")] @@ d

SimulatedHotel(name, price, score, badge) ==
    [name |-> name, price_total |-> price, price_per_night |-> price,
     review_score |-> score, is_real_data |-> FALSE, badge |-> badge]

\* _get_simulated_hotels
GetSimulatedHotels ==
    << SimulatedHotel(<<"T", "a", "j">>, 8500, 92, "Best Overall"),
       SimulatedHotel(<<"R", "a", "d">>, 5200, 85, "Highly Rated"),
       SimulatedHotel(<<"L", "e", "m">>, 3800, 80, "Best Value") >>

\* _get_fallback_hotels: the parsed JSON is returned as it is
GetFallbackHotels(reply) ==
    IF reply.kind # "list" THEN GetSimulatedHotels
    ELSE [i \in 1..Len(reply.items) |->
             WithFlag([name |-> reply.items[i].name,
                       price_total |-> reply.items[i].price_total,
                       price_per_night |-> reply.items[i].price_total,
                       review_score |-> reply.items[i].review_score],
                      reply.items[i].is_real_data)]

\* _get_default_analysis: min(5, score / 2) and min(5, score / 2 - 0.2)
GetDefaultAnalysis(hotel) ==
    LET half == 5 * hotel.review_score
    IN  [sentiment_score |-> IF half < 500 THEN half ELSE 500,
         value_score |-> IF half - 20 < 500 THEN half - 20 ELSE 500]

GivenAnalysis == [sentiment_score |-> 400, value_score |-> 380]

\* score / 2 with score None raises TypeError: in the prompt of
\* _generate_review_analysis, and again in the except handler
ReviewAnalysisRaises(hotels) ==
    \E i \in 1..Len(hotels) : hotels[i].review_score = PyNone

AnalysisCap == 5

\* _add_review_analysis; outcomes[i] is how the language model call for
\* hotel i ended
AddReviewAnalysis(hotels, outcomes) ==
    [i \in 1..Len(hotels) |->
        [review_analysis |->
            IF i <= AnalysisCap /\ outcomes[i] = "given" THEN GivenAnalysis
            ELSE GetDefaultAnalysis(hotels[i])] @@ hotels[i]]

\* price_score * 0.20, times 10000
PriceScore(price, budget, nights) ==
    IF budget = PyNone THEN 10000
    ELSE IF price <= budget * nights
    THEN (IF 20000 - (10000 * price) \div budget > 0
          THEN 20000 - (10000 * price) \div budget ELSE 0)
    ELSE 0

\* the weighted sum of _rank_hotels, times 10000
Composite(hotel, budget, nights) ==
    300 * hotel.review_score
    + 50 * hotel.review_analysis.sentiment_score
    + 40 * hotel.review_analysis.value_score
    + PriceScore(Get(hotel, "price_total", 5000), budget, nights)
    + (IF Get(hotel, "is_preferred", FALSE) THEN 500 ELSE 0)

\* the sum is a binary float, so a decimal tie is decided by the error of its
\* representation: of the ties met here only 6.995 rounds up
TieRoundsUp == {69950}

\* round(composite_score, 2), in hundredths
Round2(c) ==
    IF c % 100 > 50 \/ (c % 100 = 50 /\ c \in TieRoundsUp) THEN c \div 100 + 1
    ELSE c \div 100

CompositeOf(h) == h.composite_score

HotelPriceOf(h) == Get(h, "price_total", 999999)

\* _rank_hotels
RankHotels(hotels, budget, nights) ==
    LET scored == [i \in 1..Len(hotels) |->
                      [[composite_score |-> Round2(Composite(hotels[i], budget, nights))]
                          @@ hotels[i]
                       EXCEPT !.price_per_night =
                                  Get(hotels[i], "price_total", 5000) \div nights]]
        sorted == SortDesc(scored, [k \in 1..Len(scored) |-> CompositeOf(scored[k])])
        best_value_idx == ArgMin([k \in 1..Len(Take(sorted, 5)) |-> HotelPriceOf(sorted[k])])
        Badge(i) ==
            IF i = 1 THEN "Best Overall"
            ELSE IF i = 2 THEN "Highly Rated"
            ELSE IF i = 3 THEN (IF best_value_idx >= 3 THEN "Best Value" ELSE "Great Choice")
            ELSE Get(sorted[i], "badge", "")
    IN  [i \in 1..Len(sorted) |-> [badge |-> Badge(i)] @@ sorted[i]]

HotelTopN == 3

\* _generate_summary of hotel_booking_agent
HotelSummary(hotels) ==
    IF hotels = <<>> THEN "No hotels found matching your criteria"
    ELSE IF \E i \in 1..Len(hotels) : Get(hotels[i], "is_real_data", FALSE) THEN "LIVE"
    ELSE "Est"

LaunchHotels ==
    /\ op = "hotels" /\ pc = "start"
    /\ task' = [a \in DOMAIN task |->
                   IF a \in Range(HotelApiNames) THEN "pending" ELSE task[a]]
    /\ invoked' = invoked \cup {"primary"}
    /\ pc' = "hotel_gather"
    /\ UNCHANGED <<completed, result, store, req>>
    /\ UNCHANGED <<itinerary, batch, op, cfg, raised, results, all_offers, offers, apis_used,
                   api_stats, summary, outcome>>

HotelsReturned == Len(results[HotelApiNames[1]].value) + Len(results[HotelApiNames[2]].value)

\* one of the two adapter calls ends; each adapter has its own try / except -> []
HotelAdapterReturns(a) ==
    /\ op = "hotels" /\ pc = "hotel_gather" /\ task[a] = "pending"
    /\ \/ \E f \in Failures :
            /\ raised' = raised \cup {a}
            /\ results' = [results EXCEPT ![a] = [kind |-> "ok", value |-> <<>>]]
       \/ \E raws \in SeqsUpTo(RawHotels, MaxHotels - HotelsReturned) :
            /\ raised' = raised
            /\ results' = [results EXCEPT ![a] =
                   [kind |-> "ok",
                    value |-> IF a = HotelApiNames[1]
                              THEN ParseHotelResults(raws, cfg.nights)
                              ELSE SearchBookingComV2(raws, cfg.budget, cfg.nights)]]
    /\ task' = [task EXCEPT ![a] = "done"]
    /\ UNCHANGED <<completed, result, store, req>>
    /\ UNCHANGED <<itinerary, batch, op, cfg, pc, all_offers, offers, apis_used, api_stats,
                   summary, invoked, outcome>>

\* asyncio.gather(..., return_exceptions=True) returned: de-duplicate, then
\* either the fallback is awaited or the review analysis starts
HotelsJoin ==
    /\ op = "hotels" /\ pc = "hotel_gather"
    /\ \A a \in Range(HotelApiNames) : task[a] = "done"
    /\ LET all_hotels == DedupHotels(results[HotelApiNames[1]].value
                                     \o results[HotelApiNames[2]].value)
       IN  /\ all_offers' = all_hotels
           /\ IF all_hotels = <<>>
              THEN /\ pc' = "hotel_fallback"
                   /\ invoked' = invoked \cup {"generative"}
              ELSE /\ pc' = "hotel_analysis"
                   /\ UNCHANGED invoked
    /\ UNCHANGED <<completed, result, store, req>>
    /\ UNCHANGED <<itinerary, batch, op, cfg, task, raised, results, offers, apis_used, api_stats,
                   summary, outcome>>

\* _get_fallback_hotels returned
HotelFallbackReturns ==
    /\ op = "hotels" /\ pc = "hotel_fallback"
    /\ \E reply \in HotelReplies :
         /\ all_offers' = GetFallbackHotels(reply)
         /\ raised' = IF reply.kind # "list" THEN raised \cup {"AI Estimate"} ELSE raised
         /\ invoked' = IF reply.kind # "list" THEN invoked \cup {"curated"} ELSE invoked
    /\ pc' = "hotel_analysis"
    /\ UNCHANGED <<completed, result, store, req>>
    /\ UNCHANGED <<itinerary, batch, op, cfg, task, results, offers, apis_used, api_stats,
                   summary, outcome>>

\* the rest of search_hotels: review analysis, ranking, top 3, summary
HotelAnalysisReturns ==
    /\ op = "hotels" /\ pc = "hotel_analysis"
    /\ IF ReviewAnalysisRaises(all_offers)
       THEN /\ outcome' = "raised"
            /\ UNCHANGED <<offers, summary>>
       ELSE \E outcomes \in [1..Len(all_offers) -> {"error", "given"}] :
              LET hotels == Take(RankHotels(AddReviewAnalysis(all_offers, outcomes),
                                            cfg.budget, cfg.nights), HotelTopN)
              IN  /\ outcome' = "returned"
                  /\ offers' = hotels
                  /\ summary' = HotelSummary(hotels)
    /\ pc' = "done"
    /\ UNCHANGED <<completed, result, store, req>>
    /\ UNCHANGED <<itinerary, batch, op, cfg, task, raised, results, all_offers, apis_used, api_stats,
                   invoked>>

----------------------------------------------------------------------------
(* find_meal_restaurant and find_restaurants of dining_agent *)

\* a place of the Serper Places payload (title, rating)
RawPlaces == { [title |-> t, rating |-> r] : t \in {"Cafe Lota", ""}, r \in {45, PyNone} }

\* a result of the Gimap text search (name, rating)
GooglePlaces == { [name |-> n, rating |-> r] : n \in {"Karim's", ""}, r \in {41, PyNone} }

\* _enrich_restaurant: None for a place without a title; the dict has no
\* is_real_data key and no data_source key
EnrichRestaurant(place) ==
    IF place.title = "" THEN <<>>
    ELSE <<[name |-> place.title, rating |-> place.rating, images |-> <<>>, must_try |-> <<>>]>>

\* _parse_google_place_async
ParseGooglePlaceAsync(place) ==
    IF place.name = "" THEN <<>>
    ELSE <<[name |-> place.name, rating |-> place.rating, images |-> <<>>, must_try |-> <<>>,
            is_real_data |-> TRUE, data_source |-> "Google Map Places (Gimap)"]>>

\* _get_fallback_restaurant: a curated record for a city of POPULAR_RESTAURANTS,
\* a generic one otherwise
GetFallbackRestaurant(known_city) ==
    IF known_city
    THEN [name |-> "Paranthe Wali Gali", rating |-> 43, must_try |-> <<"Aloo Parantha">>,
          data_source |-> "curated", is_real_data |-> TRUE]
    ELSE [name |-> "Popular Restaurant", rating |-> 42, must_try |-> <<"Local Specialties">>,
          data_source |-> "generated", is_real_data |-> FALSE]

NumResults == 3

\* what the tier made of the places: the first place for find_meal_restaurant,
\* places[:num_results] for find_restaurants
FromPlaces(parsed, tag) ==
    IF op = "meal"
    THEN (IF parsed = <<>> THEN <<>>
          ELSE LET r == parsed[1]
               IN  IF r = <<>> \/ tag = "" THEN r ELSE <<[data_source |-> tag] @@ r[1]>>)
    ELSE Concat(Take(parsed, NumResults))

\* "Try 3": find_meal_restaurant returns _get_fallback_restaurant(...);
\* find_restaurants calls self._get_fallback_restaurants, which DiningAgent
\* does not define (AttributeError)
CuratedTier ==
    /\ invoked' = invoked \cup {"curated"}
    /\ pc' = "done"
    /\ IF op = "meal"
       THEN /\ outcome' = "returned"
            /\ offers' = <<GetFallbackRestaurant(cfg.known_city)>>
       ELSE /\ outcome' = "raised"
            /\ offers' = <<>>

StartDining ==
    /\ op \in {"meal", "restaurants"} /\ pc = "start"
    /\ pc' = "serper"
    /\ invoked' = invoked \cup {"primary"}
    /\ UNCHANGED <<completed, result, store, req>>
    /\ UNCHANGED <<itinerary, batch, op, cfg, task, raised, results, all_offers, offers, apis_used,
                   api_stats, summary, outcome>>

\* "Try 1": _search_places returned (its bare except gives [] on any failure)
SerperReturns ==
    /\ op \in {"meal", "restaurants"} /\ pc = "serper"
    /\ \E out \in [kind : Failures, places : {<<>>}]
                  \cup [kind : {"payload"}, places : SeqsUpTo(RawPlaces, MaxPlaces)] :
         LET found == FromPlaces([k \in 1..Len(out.places) |-> EnrichRestaurant(out.places[k])], "Serper")
         IN  /\ raised' = IF out.kind \in Failures THEN {"Serper"} ELSE {}
             /\ all_offers' = found
             /\ IF found # <<>>
                THEN /\ outcome' = "returned"
                     /\ offers' = found
                     /\ pc' = "done"
                     /\ UNCHANGED invoked
                ELSE IF cfg.rapidapi
                THEN /\ pc' = "google"
                     /\ invoked' = invoked \cup {"secondary"}
                     /\ UNCHANGED <<outcome, offers>>
                ELSE CuratedTier
    /\ UNCHANGED <<completed, result, store, req>>
    /\ UNCHANGED <<itinerary, batch, op, cfg, task, results, apis_used, api_stats, summary>>

\* "Try 2": _search_google_places returned or raised (caught by the try)
GoogleReturns ==
    /\ op \in {"meal", "restaurants"} /\ pc = "google"
    /\ \E out \in [kind : Failures, places : {<<>>}]
                  \cup [kind : {"payload"}, places : SeqsUpTo(GooglePlaces, MaxPlaces)] :
         LET found == FromPlaces([k \in 1..Len(out.places) |-> ParseGooglePlaceAsync(out.places[k])], "")
         IN  /\ raised' = IF out.kind \in Failures THEN raised \cup {"Google Places"} ELSE raised
             /\ IF found # <<>>
                THEN /\ outcome' = "returned"
                     /\ offers' = found
                     /\ pc' = "done"
                     /\ UNCHANGED invoked
                ELSE CuratedTier
    /\ UNCHANGED <<completed, result, store, req>>
    /\ UNCHANGED <<itinerary, batch, op, cfg, task, results, all_offers, apis_used, api_stats, summary>>

----------------------------------------------------------------------------
(* modify_itinerary of orchestrator: re-enrichment of places, then of meals *)

PlaceNames == <<"Fort", "Lake", "Fort", "Museum", "Temple", "Garden", "Market">>

MealTypes == <<"lunch", "dinner", "lunch", "tea", "snacks", "breakfast">>

PlaceSlot(name, populated) ==
    [day |-> 1, isMeal |-> FALSE,
     place |-> [name |-> name,
                rating |-> IF populated THEN 45 ELSE PyNone,
                images |-> IF populated THEN <<"old.jpg">> ELSE <<>>,
                practicalInfo |-> [openingHours |-> IF populated THEN 9 ELSE PyNone]]]

MealSlot(type, populated) ==
    [day |-> 1, isMeal |-> TRUE, mealType |-> type,
     restaurant |-> IF populated
                    THEN <<[name |-> "Saravana Bhavan", rating |-> 44,
                            images |-> <<"old.jpg">>, mustTry |-> <<"Thali">>]>>
                    ELSE <<>>]

\* an itinerary of n place slots and m meal slots, enriched before or not
Itinerary(n, m, populated) ==
    [i \in 1..n |-> PlaceSlot(PlaceNames[i], populated)]
    \o [i \in 1..m |-> MealSlot(MealTypes[i], populated)]

\* what enrich_single_place returns: research_place of place_research_agent
\* and of photo_review_agent start from None / [] and fill in what the
\* provider gave; both swallow every exception
PlaceResults ==
    { [research |-> [opening_hours |-> PyNone], photos |-> [rating |-> PyNone, images |-> <<>>]],
      [research |-> [opening_hours |-> 10], photos |-> [rating |-> PyNone, images |-> <<"new.jpg">>]],
      [research |-> [opening_hours |-> 10], photos |-> [rating |-> 47, images |-> <<"new.jpg">>]] }

NoPlaceResult == [research |-> [opening_hours |-> PyNone], photos |-> [rating |-> PyNone, images |-> <<>>]]

\* "Collect all unique places"
PlacesToEnrich(itin) ==
    LET f[i \in 0..Len(itin)] ==
            IF i = 0 THEN <<>>
            ELSE IF ~itin[i].isMeal /\ itin[i].place.name # ""
                    /\ itin[i].place.name \notin Range(f[i - 1])
            THEN Append(f[i - 1], itin[i].place.name)
            ELSE f[i - 1]
    IN  f[Len(itin)]

PlaceBatchSize == 3

MealBatchSize == 4

\* every item from i on, whatever the batch size
RestOf(n, i, size) == { j \in 1..n : i < j }

\* the items of places_to_enrich[i:i+batch_size]
BatchOf(n, i, size) == { j \in 1..n : i < j /\ j <= i + size }

\* "Apply enrichment to itinerary": every field is assigned from the new result
ApplyPlaces(itin, places, enriched) ==
    [i \in 1..Len(itin) |->
        IF ~itin[i].isMeal /\ itin[i].place.name \in Range(places)
        THEN LET r == enriched[SeenAt(places, itin[i].place.name)]
             IN  [itin[i] EXCEPT
                     !.place.practicalInfo = [openingHours |-> r.research.opening_hours],
                     !.place.images = r.photos.images,
                     !.place.rating = r.photos.rating]
        ELSE itin[i]]

\* "Collect all meal slots": their positions in the itinerary
MealSlots(itin) ==
    LET f[i \in 0..Len(itin)] ==
            IF i = 0 THEN <<>>
            ELSE IF itin[i].isMeal THEN Append(f[i - 1], i) ELSE f[i - 1]
    IN  f[Len(itin)]

MealKey(slot) == <<slot.day, Get(slot, "mealType", "lunch")>>

\* what find_meal_restaurant can return to the orchestrator, whose DiningAgent
\* has no rapidapi_key
MealResults(c) ==
    { [data_source |-> "Serper"] @@ EnrichRestaurant(p)[1] : p \in {q \in RawPlaces : q.title # ""} }
    \cup { GetFallbackRestaurant(c.known_city) }

NoRestaurant == [name |-> ""]

\* the dict assigned to slot["restaurant"]
RestaurantView(rest) ==
    [name |-> rest.name, rating |-> rest.rating,
     images |-> Get(rest, "images", <<>>), mustTry |-> Get(rest, "must_try", <<>>)]

\* "Apply restaurants to itinerary": restaurant_map keeps the last result of a key
ApplyMeals(itin, meals, found) ==
    [i \in 1..Len(itin) |->
        IF itin[i].isMeal /\ \E j \in 1..Len(meals) : MealKey(itin[meals[j]]) = MealKey(itin[i])
        THEN LET last == CHOOSE j \in 1..Len(meals) :
                             /\ MealKey(itin[meals[j]]) = MealKey(itin[i])
                             /\ \A k \in 1..Len(meals) :
                                    MealKey(itin[meals[k]]) = MealKey(itin[i]) => k <= j
             IN  [itin[i] EXCEPT !.restaurant = <<RestaurantView(found[last])>>]
        ELSE itin[i]]

\* the operations that enrich an itinerary: modify_itinerary and plan_trip
Enriching == {"modify", "plan"}

\* _enrich_meals_parallel up to its first await; without meal slots it
\* returns at once and so does the operation
StartMeals(itin) ==
    LET meals == MealSlots(itin)
    IN  IF meals = <<>>
        THEN /\ pc' = "done"
             /\ outcome' = "returned"
             /\ invoked' = invoked \cup {"places", "meals"}
             /\ UNCHANGED <<task, results, batch>>
        ELSE /\ pc' = "meals"
             /\ batch' = 0
             /\ task' = [j \in 1..Len(meals) |->
                            IF j \in BatchOf(Len(meals), 0, MealBatchSize)
                            THEN "pending" ELSE "idle"]
             /\ results' = [j \in 1..Len(meals) |-> NoRestaurant]
             /\ invoked' = invoked \cup {"places"}
             /\ UNCHANGED outcome

\* _enrich_places_parallel up to its first await; without places it returns
\* at once and _enrich_meals_parallel starts
StartPlaces(itin) ==
    LET places == PlacesToEnrich(itin)
    IN  IF places = <<>> THEN StartMeals(itin)
        ELSE /\ pc' = "places"
             /\ batch' = 0
             /\ task' = [j \in 1..Len(places) |->
                            IF j \in BatchOf(Len(places), 0, PlaceBatchSize)
                            THEN "pending" ELSE "idle"]
             /\ results' = [j \in 1..Len(places) |-> NoPlaceResult]
             /\ UNCHANGED <<outcome, invoked>>

\* the replies of the text completion of _generate_modification: a JSON
\* object with the keys itinerary, changes and explanation; a failed call; a
\* text that does not parse; a JSON object without one of the keys
ModifyReplies == {"modified", "error", "unparseable", "incomplete"}

\* the except branch of _generate_modification: it returns the itinerary it
\* was given, which is the dict that the store holds
GenerationFails(reply) == reply \in {"error", "unparseable"}

\* result["success"] of process_modification: False only if reading the
\* three keys of the generated object raises
ReplanSucceeds(reply) == reply # "incomplete"

\* the end of plan_trip (final assembly) once the enrichment is over
ResultNext ==
    IF op = "plan" /\ pc' = "done"
    THEN [result EXCEPT !.success = TRUE, !.itinerary = "set"]
    ELSE result

\* the store of main.py after a step of modify_itinerary: the enrichment
\* writes into the stored dict if that is the one it was given, and the
\* handler of /api/modify stores the itinerary of a successful result
StoreNext ==
    IF op = "modify"
       /\ ("Replanning" \in raised'
           \/ (pc' = "done" /\ result'.success /\ itinerary' # <<>>))
    THEN itinerary'
    ELSE store

StartModify ==
    /\ op = "modify" /\ pc = "start"
    /\ pc' = "replan"
    /\ UNCHANGED <<completed, result, store, req>>
    /\ UNCHANGED <<op, cfg, task, raised, results, all_offers, offers, apis_used,
                   api_stats, summary, invoked, outcome, itinerary, batch>>

\* process_modification returned: on success _enrich_places_parallel runs up
\* to its first await
ReplanReturns ==
    /\ op = "modify" /\ pc = "replan"
    /\ \E reply \in ModifyReplies :
         /\ raised' = IF GenerationFails(reply) THEN raised \cup {"Replanning"} ELSE raised
         /\ result' = [result EXCEPT !.success = ReplanSucceeds(reply),
                                     !.itinerary = IF ReplanSucceeds(reply) THEN "set" ELSE "null"]
         /\ IF ~ReplanSucceeds(reply)
            THEN /\ pc' = "done"
                 /\ outcome' = "returned"
                 /\ UNCHANGED <<task, results, batch, invoked>>
            ELSE StartPlaces(itinerary)
    /\ UNCHANGED itinerary
    /\ store' = StoreNext
    /\ UNCHANGED <<completed, req>>
    /\ UNCHANGED <<op, cfg, all_offers, offers, apis_used, api_stats, summary>>

\* enrich_single_place of item j returned
PlaceEnriched(j) ==
    /\ op \in Enriching /\ pc = "places"
    /\ j \in DOMAIN task /\ task[j] = "pending"
    /\ \E r \in PlaceResults : results' = [results EXCEPT ![j] = r]
    /\ task' = [task EXCEPT ![j] = "done"]
    /\ UNCHANGED <<completed, result, store, req>>
    /\ UNCHANGED <<op, cfg, pc, raised, all_offers, offers, apis_used, api_stats,
                   summary, invoked, outcome, itinerary, batch>>

\* asyncio.gather of a batch of places returned: the next batch starts, or the
\* results are applied and the meal enrichment starts
PlacesBatchJoin ==
    /\ op \in Enriching /\ pc = "places"
    /\ \A j \in DOMAIN task : task[j] # "pending"
    /\ LET n == Len(PlacesToEnrich(itinerary))
       IN  IF batch + PlaceBatchSize < n
           THEN /\ batch' = batch + PlaceBatchSize
                /\ task' = [j \in 1..n |->
                               IF j \in BatchOf(n, batch + PlaceBatchSize, PlaceBatchSize)
                               THEN "pending" ELSE task[j]]
                /\ UNCHANGED <<pc, results, itinerary, outcome, invoked>>
           ELSE /\ itinerary' = ApplyPlaces(itinerary, PlacesToEnrich(itinerary), results)
                /\ StartMeals(ApplyPlaces(itinerary, PlacesToEnrich(itinerary), results))
    /\ UNCHANGED raised
    /\ result' = ResultNext
    /\ store' = StoreNext
    /\ UNCHANGED <<completed, req>>
    /\ UNCHANGED <<op, cfg, all_offers, offers, apis_used, api_stats, summary>>

\* find_restaurant_for_meal of item j returned
MealFound(j) ==
    /\ op \in Enriching /\ pc = "meals"
    /\ j \in DOMAIN task /\ task[j] = "pending"
    /\ \E r \in MealResults(cfg) : results' = [results EXCEPT ![j] = r]
    /\ task' = [task EXCEPT ![j] = "done"]
    /\ UNCHANGED <<completed, result, store, req>>
    /\ UNCHANGED <<op, cfg, pc, raised, all_offers, offers, apis_used, api_stats,
                   summary, invoked, outcome, itinerary, batch>>

\* asyncio.gather of a batch of meals returned: the next batch starts, or the
\* restaurants are applied and the operation returns
MealsBatchJoin ==
    /\ op \in Enriching /\ pc = "meals"
    /\ \A j \in DOMAIN task : task[j] # "pending"
    /\ LET meals == MealSlots(itinerary)
           n == Len(meals)
       IN  IF batch + MealBatchSize < n
           THEN /\ batch' = batch + MealBatchSize
                /\ task' = [j \in 1..n |->
                               IF j \in BatchOf(n, batch + MealBatchSize, MealBatchSize)
                               THEN "pending" ELSE task[j]]
                /\ UNCHANGED <<pc, results, itinerary, outcome, invoked>>
           ELSE /\ itinerary' = ApplyMeals(itinerary, meals, results)
                /\ pc' = "done"
                /\ outcome' = "returned"
                /\ invoked' = invoked \cup {"meals"}
                /\ UNCHANGED <<task, results, batch>>
    /\ UNCHANGED raised
    /\ result' = ResultNext
    /\ store' = StoreNext
    /\ UNCHANGED <<completed, req>>
    /\ UNCHANGED <<op, cfg, all_offers, offers, apis_used, api_stats, summary>>

----------------------------------------------------------------------------
(* plan_trip of orchestrator *)

\* what the two research tasks of phase 1 end with: WeatherAgent.research
\* parses the dates before its try
ResearchOutcomes == {"ok", "raise"}

\* what _generate_base_itinerary ends with: the parsed JSON (an itinerary, or
\* a value such as a list, on which itinerary.get of _enrich_places_parallel
\* raises), None from its except branch, or the ValueError of strptime before
\* its try
BaseOutcomes == {"itinerary", "malformed", "none", "raise"}

\* the base itinerary counted as generated although there is none
NeverMissing(base) == FALSE

\* "if not base_itinerary"
BaseMissing(base) == base = "none"

\* plan_trip ends without an itinerary: the early return or the except branch
PlanFails(error) ==
    /\ result' = [result EXCEPT !.errors = Append(@, error)]
    /\ pc' = "done"
    /\ outcome' = "returned"
    /\ UNCHANGED <<task, results, batch, invoked>>

StartPlan ==
    /\ op = "plan" /\ pc = "start"
    /\ pc' = "research"
    /\ UNCHANGED <<completed, result, store, req>>
    /\ UNCHANGED <<op, cfg, task, raised, results, all_offers, offers, apis_used,
                   api_stats, summary, invoked, outcome, itinerary, batch>>

\* asyncio.gather(weather_task, city_task) returned or raised
ResearchReturns ==
    /\ op = "plan" /\ pc = "research"
    /\ \E k \in ResearchOutcomes :
         IF k = "raise"
         THEN /\ raised' = raised \cup {"research"}
              /\ PlanFails("exception")
         ELSE /\ pc' = "intelligence"
              /\ UNCHANGED <<raised, result, task, results, batch, invoked, outcome>>
    /\ UNCHANGED <<completed, store, req>>
    /\ UNCHANGED <<op, cfg, all_offers, offers, apis_used, api_stats, summary, itinerary>>

\* _generate_planning_intelligence returned: its except branch returns defaults
IntelligenceReturns ==
    /\ op = "plan" /\ pc = "intelligence"
    /\ \E failed \in BOOLEAN :
         raised' = IF failed THEN raised \cup {"intelligence"} ELSE raised
    /\ pc' = "base"
    /\ UNCHANGED <<completed, result, store, req>>
    /\ UNCHANGED <<op, cfg, task, results, all_offers, offers, apis_used,
                   api_stats, summary, invoked, outcome, itinerary, batch>>

\* _generate_base_itinerary returned or raised: on success
\* _enrich_places_parallel runs up to its first await
BaseItineraryReturns ==
    /\ op = "plan" /\ pc = "base"
    /\ \E k \in BaseOutcomes :
         IF k = "raise"
         THEN /\ raised' = raised \cup {"base"}
              /\ PlanFails("exception")
         ELSE IF BaseMissing(k)
         THEN /\ raised' = raised \cup {"base"}
              /\ PlanFails("Failed to generate base itinerary")
         ELSE IF k = "malformed"
         THEN /\ raised' = raised \cup {"enrichment"}
              /\ PlanFails("exception")
         ELSE /\ raised' = IF k = "itinerary" THEN raised ELSE raised \cup {"base"}
              /\ StartPlaces(itinerary)
              /\ result' = ResultNext
    /\ UNCHANGED <<completed, store, req>>
    /\ UNCHANGED <<op, cfg, all_offers, offers, apis_used, api_stats, summary, itinerary>>

----------------------------------------------------------------------------

\* the result dict as plan_trip and process_modification create it; the
\* itinerary it refers to is the variable itinerary
NoResult == [success |-> FALSE, itinerary |-> "null", errors |-> <<>>]

Ops == {"flights", "trains", "buses", "hotels", "meal", "restaurants", "modify", "plan"}

AllApis == Range(FlightApiNames) \cup Range(HotelApiNames)

\* the configuration (API keys present) and the arguments of the call
Configs(o) ==
    LET none == [amadeus |-> FALSE, budget |-> PyNone, nights |-> 1,
                 rapidapi |-> FALSE, known_city |-> FALSE]
    IN  IF o = "flights" THEN { [none EXCEPT !.amadeus = b] : b \in BOOLEAN }
        ELSE IF o = "hotels"
        THEN { [none EXCEPT !.budget = b, !.nights = n] : b \in {PyNone, 4000}, n \in {1, 2} }
        ELSE IF o \in {"meal", "restaurants"}
        THEN { [none EXCEPT !.rapidapi = r, !.known_city = k] : r, k \in BOOLEAN }
        ELSE {none}

Init ==
    /\ op \in Ops
    /\ cfg \in Configs(op)
    /\ pc = "start"
    /\ task = IF op \in Enriching THEN <<>> ELSE [a \in AllApis |-> "idle"]
    /\ raised = {}
    /\ results = IF op \in Enriching THEN <<>>
                 ELSE [a \in AllApis |-> [kind |-> "ok", value |-> <<>>]]
    /\ all_offers = <<>>
    /\ offers = <<>>
    /\ apis_used = <<>>
    /\ api_stats = {}
    /\ summary = ""
    /\ invoked = {}
    /\ outcome = "running"
    /\ itinerary \in (IF op = "modify"
                      THEN { Itinerary(1, 1, e) : e \in BOOLEAN }
                           \cup { Itinerary(MaxPlaceSlots, MaxMealSlots, TRUE) }
                      ELSE IF op = "plan"
                      THEN { Itinerary(n, m, FALSE) : n, m \in 0..2 }
                      ELSE { <<>> })
    /\ batch = 0
    /\ completed = <<>>
    /\ result = NoResult
    /\ store = IF op = "modify" THEN itinerary ELSE <<>>
    /\ req = <<>>

Next ==
    \/ LaunchFlights
    \/ \E a \in AllApis : FlightAdapterReturns(a)
    \/ FlightsJoin
    \/ FlightFallbackReturns
    \/ StartTrains
    \/ TrainPrimaryReturns
    \/ TrainFallbackReturns
    \/ StartBuses
    \/ BusReturns
    \/ LaunchHotels
    \/ \E a \in AllApis : HotelAdapterReturns(a)
    \/ HotelsJoin
    \/ HotelFallbackReturns
    \/ HotelAnalysisReturns
    \/ StartDining
    \/ SerperReturns
    \/ GoogleReturns
    \/ StartModify
    \/ ReplanReturns
    \/ StartPlan
    \/ ResearchReturns
    \/ IntelligenceReturns
    \/ BaseItineraryReturns
    \/ \E j \in 1..MaxPlaceSlots : PlaceEnriched(j)
    \/ PlacesBatchJoin
    \/ \E j \in 1..MaxMealSlots : MealFound(j)
    \/ MealsBatchJoin

Spec == Init /\ [][Next]_vars

----------------------------------------------------------------------------
(* The flight search on a response longer than the list it returns *)

\* six departures of one airline: the last one is the fastest
Timetable ==
    << [airline |-> <<"A", "i">>, departure_time |-> "06:00", arrival_time |-> "08:00",
        num_stops |-> 0, duration_minutes |-> 120],
       [airline |-> <<"A", "i">>, departure_time |-> "09:00", arrival_time |-> "11:05",
        num_stops |-> 0, duration_minutes |-> 125],
       [airline |-> <<"A", "i">>, departure_time |-> "12:00", arrival_time |-> "14:10",
        num_stops |-> 0, duration_minutes |-> 130],
       [airline |-> <<"A", "i">>, departure_time |-> "14:00", arrival_time |-> "17:00",
        num_stops |-> 1, duration_minutes |-> 180],
       [airline |-> <<"A", "i">>, departure_time |-> "18:00", arrival_time |-> "20:05",
        num_stops |-> 0, duration_minutes |-> 125],
       [airline |-> <<"A", "i">>, departure_time |-> "21:00", arrival_time |-> "22:50",
        num_stops |-> 0, duration_minutes |-> 110] >>

Fares == {4800, 5000, 5200}

\* the responses of one provider: the first n departures, each at some fare
LongResponses ==
    UNION { { [i \in 1..n |-> [listing |-> Timetable[i], price |-> fare[i]]] :
                fare \in [1..n -> Fares] } : n \in 0..Len(Timetable) }

\* asyncio.gather is about to return: Google Flights answered, Booking.com
\* had nothing
RankInit ==
    /\ op = "flights"
    /\ cfg = [amadeus |-> FALSE, budget |-> PyNone, nights |-> 1,
              rapidapi |-> FALSE, known_city |-> FALSE]
    /\ pc = "gather"
    /\ task = [a \in AllApis |-> IF a \in Range(FlightApis(cfg)) THEN "done" ELSE "idle"]
    /\ raised = {}
    /\ \E raws \in LongResponses :
          results = [a \in AllApis |->
                        IF a = "Google Flights"
                        THEN SafeCall("payload", ParseFlights(raws, a))
                        ELSE [kind |-> "ok", value |-> <<>>]]
    /\ all_offers = <<>>
    /\ offers = <<>>
    /\ apis_used = <<>>
    /\ api_stats = {}
    /\ summary = ""
    /\ invoked = {"primary"}
    /\ outcome = "running"
    /\ itinerary = <<>>
    /\ batch = 0
    /\ completed \in { Permute(FlightApis(cfg), p) : p \in Perms(Len(FlightApis(cfg))) }
    /\ result = NoResult
    /\ store = <<>>
    /\ req = <<>>

RankNext ==
    \/ FlightsJoin
    \/ FlightFallbackReturns

RankSpec == RankInit /\ [][RankNext]_vars

----------------------------------------------------------------------------
(* Two requests to /api/modify for one session *)

Requests == {1, 2}

\* the place each request asks to add
Additions == <<"Museum", "Garden">>

\* the itinerary a text completion returns that applies the request and keeps
\* the rest of the itinerary it was shown
Modified(itin, r) == Append(itin, PlaceSlot(Additions[r], FALSE))

HasPlace(itin, name) ==
    \E i \in 1..Len(itin) : ~itin[i].isMeal /\ itin[i].place.name = name

\* the replies after which the itinerary worked on is a new dict
SessionReplies == { reply \in ModifyReplies : ~GenerationFails(reply) }

SessionInit ==
    /\ op = "modify"
    /\ cfg = [amadeus |-> FALSE, budget |-> PyNone, nights |-> 1,
              rapidapi |-> FALSE, known_city |-> FALSE]
    /\ pc = "start"
    /\ task = <<>>
    /\ raised = {}
    /\ results = <<>>
    /\ all_offers = <<>>
    /\ offers = <<>>
    /\ apis_used = <<>>
    /\ api_stats = {}
    /\ summary = ""
    /\ invoked = {}
    /\ outcome = "running"
    /\ itinerary = <<>>
    /\ batch = 0
    /\ completed = <<>>
    /\ result = NoResult
    /\ store \in { Itinerary(n, 0, e) : n \in 1..2, e \in BOOLEAN }
    /\ req = [r \in Requests |-> [pc |-> "idle", itinerary |-> <<>>, success |-> FALSE]]

\* modify_itinerary of main.py up to its first await: the stored itinerary is
\* read and given to the orchestrator
Receive(r) ==
    /\ req[r].pc = "idle"
    /\ store # <<>>
    /\ req' = [req EXCEPT ![r] = [pc |-> "replan", itinerary |-> store, success |-> FALSE]]
    /\ UNCHANGED <<op, cfg, pc, task, raised, results, all_offers, offers, apis_used,
                   api_stats, summary, invoked, outcome, itinerary, batch, completed,
                   result, store>>

\* process_modification of request r returned
Replanned(r) ==
    /\ req[r].pc = "replan"
    /\ \E reply \in SessionReplies :
         req' = [req EXCEPT ![r] =
                    IF ReplanSucceeds(reply)
                    THEN [pc |-> "enrich", itinerary |-> Modified(req[r].itinerary, r),
                          success |-> TRUE]
                    ELSE [pc |-> "done", itinerary |-> req[r].itinerary, success |-> FALSE]]
    /\ UNCHANGED <<op, cfg, pc, task, raised, results, all_offers, offers, apis_used,
                   api_stats, summary, invoked, outcome, itinerary, batch, completed,
                   result, store>>

\* the re-enrichment of request r returned (the itinerary has no meal slot)
\* and the handler stores the result
Stored(r) ==
    /\ req[r].pc = "enrich"
    /\ \E found \in PlaceResults :
         LET places == PlacesToEnrich(req[r].itinerary)
             final == ApplyPlaces(req[r].itinerary, places,
                                  [j \in 1..Len(places) |-> found])
         IN  /\ req' = [req EXCEPT ![r] = [pc |-> "done", itinerary |-> final,
                                           success |-> TRUE]]
             /\ store' = final
    /\ UNCHANGED <<op, cfg, pc, task, raised, results, all_offers, offers, apis_used,
                   api_stats, summary, invoked, outcome, itinerary, batch, completed,
                   result>>

SessionNext == \E r \in Requests : Receive(r) \/ Replanned(r) \/ Stored(r)

SessionSpec == SessionInit /\ [][SessionNext]_vars

----------------------------------------------------------------------------
(* Enrichment run twice on one itinerary, the providers' responses unchanged *)

\* the names the lead planner looks up: the one of the generated itinerary
\* and the official one the provider gives for it
LeadNames == {"Fort", "Red Fort"}

\* the keywords of skip_keywords, as the place names that contain one
SkipNames == {"Hotel Check-in"}

\* a schedule item of the lead planner's itinerary; tips is the string of the
\* item as the sequence of the parts joined by " | "
LeadSlot(name, tips, populated) ==
    [place |-> [name |-> name,
                rating |-> IF populated THEN 45 ELSE PyNone,
                openingHours |-> IF populated THEN 9 ELSE PyNone,
                estimatedTime |-> "1 hour",
                practicalInfo |-> [found |-> FALSE]],
     tips |-> tips]

LeadItineraries ==
    { <<LeadSlot("Fort", t, e)>> : t \in {<<>>, <<"Carry water">>}, e \in BOOLEAN }
    \cup { <<LeadSlot("Hotel Check-in", <<>>, FALSE), LeadSlot("Fort", <<>>, FALSE)>> }

\* what fetch_attraction_details gives for a name: the call raises, nothing
\* found, or the fields found (a field not found is None or "")
DetailReplies ==
    { [raises |-> TRUE, found |-> FALSE], [raises |-> FALSE, found |-> FALSE] }
    \cup { [raises |-> FALSE, found |-> TRUE, rating |-> 47, name |-> n, openingHours |-> h] :
             n \in {"", "Red Fort"}, h \in {PyNone, 10} }

\* what fetch_practical_info gives for a name
PracticalReplies ==
    { [raises |-> TRUE, found |-> FALSE], [raises |-> FALSE, found |-> FALSE] }
    \cup { [raises |-> FALSE, found |-> TRUE, typicalDuration |-> d, openingHours |-> h,
            ticketInfo |-> t] :
             d \in {"", "2 hours"}, h \in {PyNone, 8}, t \in {"", "Rs 50"} }

\* the providers' responses, by the name asked for
LeadLookups == [details : [LeadNames -> DetailReplies], practical : [LeadNames -> PracticalReplies]]

LeadCap == 10

\* one turn of the loop of _enrich_places_with_real_data: the except branch
\* keeps what was assigned before the call that raised
LeadEnrichSlot(slot, lookups) ==
    LET real == lookups.details[slot.place.name]
        info == lookups.practical[slot.place.name]
        p1 == IF real.found
              THEN [slot.place EXCEPT
                       !.rating = real.rating,
                       !.name = IF real.name # "" THEN real.name ELSE @,
                       !.openingHours = IF real.openingHours # PyNone
                                        THEN real.openingHours ELSE @]
              ELSE slot.place
        p2 == IF info.found
              THEN [p1 EXCEPT
                       !.practicalInfo = info,
                       !.estimatedTime = IF info.typicalDuration # ""
                                         THEN info.typicalDuration ELSE @,
                       !.openingHours = IF info.openingHours # PyNone /\ @ = PyNone
                                        THEN info.openingHours ELSE @]
              ELSE p1
        tips_parts == IF info.found /\ info.ticketInfo # "" THEN <<info.ticketInfo>> ELSE <<>>
    IN  IF real.raises THEN slot
        ELSE IF info.raises THEN [slot EXCEPT !.place = p1]
        ELSE [slot EXCEPT !.place = p2, !.tips = @ \o tips_parts]

\* _enrich_places_with_real_data of lead_planner: the first LeadCap places
\* whose name has no skip keyword
EnrichPlacesWithRealData(data, lookups) ==
    LET fetch == { i \in 1..Len(data) : data[i].place.name \notin SkipNames }
        rank(i) == Cardinality({ j \in fetch : j <= i })
    IN  [i \in 1..Len(data) |->
            IF i \in fetch /\ rank(i) <= LeadCap THEN LeadEnrichSlot(data[i], lookups)
            ELSE data[i]]

\* the responses the orchestrator's agents give, by place name and meal type
OrchLookups ==
    [places : [{PlaceNames[1], PlaceNames[2]} -> PlaceResults],
     meals : [{MealTypes[1], MealTypes[2]} -> MealResults([known_city |-> FALSE])]]

\* _enrich_places_parallel and then _enrich_meals_parallel, run to their end
EnrichParallel(itin, lookups) ==
    LET places == PlacesToEnrich(itin)
        enriched == ApplyPlaces(itin, places,
                                [j \in 1..Len(places) |-> lookups.places[places[j]]])
        meals == MealSlots(enriched)
    IN  ApplyMeals(enriched, meals,
                   [j \in 1..Len(meals) |-> lookups.meals[enriched[meals[j]].mealType]])

EnrichInit ==
    /\ op \in {"lead_planner", "enrich"}
    /\ cfg = [amadeus |-> FALSE, budget |-> PyNone, nights |-> 1,
              rapidapi |-> FALSE, known_city |-> FALSE]
    /\ pc = "start"
    /\ task = <<>>
    /\ raised = {}
    /\ results \in (IF op = "lead_planner" THEN LeadLookups ELSE OrchLookups)
    /\ all_offers = <<>>
    /\ offers = <<>>
    /\ apis_used = <<>>
    /\ api_stats = {}
    /\ summary = ""
    /\ invoked = {}
    /\ outcome = "running"
    /\ itinerary \in (IF op = "lead_planner" THEN LeadItineraries
                      ELSE { Itinerary(n, m, e) : n, m \in 1..2, e \in BOOLEAN })
    /\ batch = 0
    /\ completed = <<>>
    /\ result = NoResult
    /\ store = <<>>
    /\ req = <<>>

\* one run of the lead planner's enrichment
LeadPlannerEnriches ==
    /\ op = "lead_planner" /\ pc \in {"start", "once"}
    /\ itinerary' = EnrichPlacesWithRealData(itinerary, results)
    /\ pc' = IF pc = "start" THEN "once" ELSE "twice"
    /\ UNCHANGED <<op, cfg, task, raised, results, all_offers, offers, apis_used,
                   api_stats, summary, invoked, outcome, batch, completed, result,
                   store, req>>

\* one run of the orchestrator's enrichment
OrchestratorEnriches ==
    /\ op = "enrich" /\ pc \in {"start", "once"}
    /\ itinerary' = EnrichParallel(itinerary, results)
    /\ pc' = IF pc = "start" THEN "once" ELSE "twice"
    /\ UNCHANGED <<op, cfg, task, raised, results, all_offers, offers, apis_used,
                   api_stats, summary, invoked, outcome, batch, completed, result,
                   store, req>>

EnrichNext ==
    \/ LeadPlannerEnriches
    \/ OrchestratorEnriches

EnrichSpec == EnrichInit /\ [][EnrichNext]_vars

----------------------------------------------------------------------------
(* Properties of the Merger (C1, C2, C3) *)

\* the flight fan-out has been joined and its results collected
FlightsJoined == op = "flights" /\ pc \in {"fallback", "done"} /\ api_stats # {}

\* the two hotel adapter calls have been joined
HotelsJoined == op = "hotels" /\ pc \in {"hotel_fallback", "hotel_analysis", "done"}

\* the list the hotel de-duplication loop is given
HotelInputs == results[HotelApiNames[1]].value \o results[HotelApiNames[2]].value

FlightGroup(key) == { x \in Range(all_offers) : FlightKey(x) = key }

HotelGroup(key) == { x \in Range(HotelInputs) : HotelKey(x) = key }

\* C1: every representative the Merger returns has, in found_in_apis, the
\* provider of every input offer with the same identity key, whatever the
\* order and the relative prices of the offers (flights and hotels).
C1_ProvenanceComplete ==
    /\ FlightsJoined =>
         \A r \in Range(MergeAndDeduplicate(all_offers)) :
            \A x \in FlightGroup(FlightKey(r)) : x.data_source \in r.found_in_apis
    /\ HotelsJoined =>
         \A r \in Range(DedupHotels(HotelInputs)) :
            \A x \in HotelGroup(HotelKey(r)) : x.data_source \in Get(r, "found_in_apis", {})

\* C1, flights alone: the same statement for _merge_and_deduplicate only
C1_FlightProvenanceComplete ==
    FlightsJoined =>
       \A r \in Range(MergeAndDeduplicate(all_offers)) :
          \A x \in FlightGroup(FlightKey(r)) : x.data_source \in r.found_in_apis

\* C2: for every identity key of the input (for hotels: every key that is not
\* empty), the Merger returns an offer with that key, and its price is the
\* minimum price of the input offers with that key (flights: price_per_person;
\* hotels: price_total).
C2_MinPrice ==
    /\ FlightsJoined =>
         /\ \A x \in Range(all_offers) :
               \E r \in Range(MergeAndDeduplicate(all_offers)) : FlightKey(r) = FlightKey(x)
         /\ \A r \in Range(MergeAndDeduplicate(all_offers)) :
               r.price_per_person
                   = Min({ x.price_per_person : x \in FlightGroup(FlightKey(r)) })
    /\ HotelsJoined =>
         /\ \A x \in Range(HotelInputs) :
               HotelKey(x) # <<>> =>
                  \E r \in Range(DedupHotels(HotelInputs)) : HotelKey(r) = HotelKey(x)
         /\ \A r \in Range(DedupHotels(HotelInputs)) :
               r.price_total = Min({ x.price_total : x \in HotelGroup(HotelKey(r)) })

\* a flight merge in which a later offer of a key is cheaper than an earlier one
C2_Witness ==
    /\ FlightsJoined
    /\ \E i, j \in 1..Len(all_offers) :
          /\ i < j
          /\ FlightKey(all_offers[i]) = FlightKey(all_offers[j])
          /\ all_offers[j].price_per_person < all_offers[i].price_per_person
          /\ all_offers[i].data_source # all_offers[j].data_source

\* a hotel de-duplication in which the second adapter has the cheaper duplicate
C2_HotelWitness ==
    /\ HotelsJoined
    /\ \E x \in Range(results[HotelApiNames[1]].value) :
          \E y \in Range(results[HotelApiNames[2]].value) :
             HotelKey(x) = HotelKey(y) /\ y.price_total < x.price_total

\* the representatives of a merge: key, price and provenance
FlightReps(flights) ==
    { <<FlightKey(r), r.price_per_person, r.found_in_apis>> :
        r \in Range(MergeAndDeduplicate(flights)) }

HotelReps(hotels) ==
    { <<HotelKey(r), r.price_total, Get(r, "found_in_apis", {})>> :
        r \in Range(DedupHotels(hotels)) }

\* C3: for every permutation of the input list the Merger returns the same
\* set of representatives, each with the same provenance list.
C3_OrderIndependent ==
    /\ FlightsJoined =>
         \A p \in Perms(Len(all_offers)) :
            FlightReps(Permute(all_offers, p)) = FlightReps(all_offers)
    /\ HotelsJoined =>
         \A p \in Perms(Len(HotelInputs)) :
            HotelReps(Permute(HotelInputs, p)) = HotelReps(HotelInputs)

----------------------------------------------------------------------------
(* Properties of the cascade (C4, C5, C6, C7) *)

\* the primary tier has ended and its (merged) output has at least one offer
PrimaryYielded ==
    \/ /\ op = "flights" /\ pc \in {"fallback", "done"}
       /\ MergeAndDeduplicate(Collected(cfg)) # <<>>
    \/ /\ op = "trains" /\ pc \in {"train_fallback", "done"}
       /\ all_offers # <<>>
    \/ /\ HotelsJoined
       /\ DedupHotels(HotelInputs) # <<>>
    \/ /\ op = "meal" /\ pc \in {"google", "done"}
       /\ all_offers # <<>>

\* C4: in a flight, train, hotel or meal-restaurant search, once the primary
\* tier's merged output has at least one offer no secondary, generative or
\* curated tier is invoked.
C4_PrimarySuffices == PrimaryYielded => invoked = {"primary"}

\* a flight search that returned what the primary tier found
C4_Witness ==
    /\ op = "flights" /\ pc = "done" /\ outcome = "returned"
    /\ PrimaryYielded
    /\ offers # <<>>

FailedAdapters == raised \cap Range(FlightApis(cfg))

\* C5: in a flight fan-out of three adapters of which exactly one raised or
\* timed out, the join completes, every adapter call ran to its end, the failed
\* adapter counts zero offers and the collected list is the offers of the other
\* two adapters, in adapter order.
C5_OneFailureTolerated ==
    (/\ op = "flights" /\ cfg.amadeus
     /\ pc \in {"fallback", "done"}
     /\ Cardinality(FailedAdapters) = 1)
    => /\ \A a \in Range(FlightApis(cfg)) : task[a] = "done"
       /\ api_stats \cap (Range(FlightApis(cfg)) \X (0..MaxOffers)) = ApiStats(cfg)
       /\ \A a \in FailedAdapters : <<a, 0>> \in api_stats
       /\ all_offers
            = Concat([i \in 1..Len(FlightApis(cfg)) |->
                         IF FlightApis(cfg)[i] \in FailedAdapters THEN <<>>
                         ELSE results[FlightApis(cfg)[i]].value])

\* three adapters, one failed, both others returned offers, the search returned
C5_Witness ==
    /\ op = "flights" /\ cfg.amadeus /\ pc = "done" /\ outcome = "returned"
    /\ Cardinality(FailedAdapters) = 1
    /\ \A a \in Range(FlightApis(cfg)) \ FailedAdapters : Len(results[a].value) > 0
    /\ Len(all_offers) >= 2

\* the text-completion call of the generative tier failed or its text did not parse
GenerativeFailed == "generative" \in invoked /\ "AI Estimate" \in raised

\* the summaries that say that nothing was found
EmptySummaries == {"No flights found for this route.", "No hotels found matching your criteria"}

\* C6: when the primary tier yields nothing and the generative call fails or
\* its output does not parse, the search returns an empty offer list with an
\* annotation saying so, and no offer of a further fallback.
C6_TerminalFailureIsEmpty ==
    (pc = "done" /\ GenerativeFailed)
    => /\ outcome = "returned"
       /\ offers = <<>>
       /\ summary \in EmptySummaries
       /\ "curated" \notin invoked

\* the offers the search returned came from the generative tier
GenerativeReturned ==
    /\ op \in {"flights", "trains", "hotels"}
    /\ pc = "done" /\ outcome = "returned"
    /\ "generative" \in invoked /\ "curated" \notin invoked

\* C7: every offer a generative-tier call returns (flights, trains, hotels) has
\* is_real_data = false, whatever the text-completion output gave for it.
C7_GenerativeNeverReal ==
    GenerativeReturned =>
       \A i \in 1..Len(offers) :
          "is_real_data" \in DOMAIN offers[i] /\ offers[i].is_real_data = FALSE

\* C7, flights and trains alone
C7_FlightsTrainsNeverReal ==
    (GenerativeReturned /\ op \in {"flights", "trains"}) =>
       \A i \in 1..Len(offers) : offers[i].is_real_data = FALSE

----------------------------------------------------------------------------
(* Properties of the results (C8, C9, C10) *)

\* the restaurants batch enrichment has attached to the meal slots
AttachedRestaurants ==
    IF op = "modify" /\ pc = "done" /\ batch = 0 /\ DOMAIN results # {}
    THEN UNION { Range(itinerary[i].restaurant) :
                    i \in { k \in 1..Len(itinerary) : itinerary[k].isMeal } }
    ELSE {}

\* C8: every offer that reaches a caller, and every restaurant batch
\* enrichment attaches to a meal slot, has the flag is_real_data, and the flag
\* is true only for data of a live provider response (no generative, curated
\* or simulated tier produced it).
C8_FlagAlwaysTruthful ==
    /\ (pc = "done" /\ outcome = "returned") =>
         \A i \in 1..Len(offers) :
            /\ "is_real_data" \in DOMAIN offers[i]
            /\ offers[i].is_real_data => invoked \subseteq {"primary", "secondary"}
    /\ \A r \in AttachedRestaurants : "is_real_data" \in DOMAIN r

\* C9: search_travel_options, search_hotels, find_restaurants and
\* find_meal_restaurant raise no exception, whatever the providers and the
\* text-completion service fail with or return.
C9_NeverRaises ==
    op \in {"flights", "trains", "buses", "hotels", "meal", "restaurants"}
       => outcome # "raised"

PlaceKept(old, new) ==
    /\ old.rating # PyNone => new.rating # PyNone
    /\ old.images # <<>> => new.images # <<>>
    /\ old.practicalInfo.openingHours # PyNone => new.practicalInfo.openingHours # PyNone

RestaurantKept(old, new) ==
    old # <<>> =>
       /\ new # <<>>
       /\ old[1].rating # PyNone => new[1].rating # PyNone
       /\ old[1].images # <<>> => new[1].images # <<>>
       /\ old[1].mustTry # <<>> => new[1].mustTry # <<>>

\* C10: a re-run of batch enrichment never leaves null or empty a field of a
\* place or meal slot that was populated before the run.
C10_NeverErases ==
    [][ op = "modify" =>
          \A i \in 1..Len(itinerary) :
             IF itinerary[i].isMeal
             THEN RestaurantKept(itinerary[i].restaurant, itinerary'[i].restaurant)
             ELSE PlaceKept(itinerary[i].place, itinerary'[i].place) ]_vars

----------------------------------------------------------------------------
(* Properties of the Ranker (C12, C13, C19, C20) *)

\* the public operation has returned its result
SearchReturned == pc = "done" /\ outcome = "returned"

TopBadges == {"Cheapest", "Fastest", "Best Value"}

Holders(list, b) == {i \in 1..Len(list) : list[i].badge = b}

\* C12: in a ranked flight or train list of at least three offers, each of the
\* badges Cheapest, Fastest and Best Value is held by at most one offer (the
\* badge of an offer is one field, so no offer holds two of them).
C12_BadgesExclusive ==
    (op \in {"flights", "trains"} /\ SearchReturned /\ Len(offers) >= 3) =>
        \A b \in TopBadges : Cardinality(Holders(offers, b)) <= 1

\* a flight search that returned three offers, among them one Cheapest, one
\* Fastest and one Best Value
C12_Witness ==
    /\ op = "flights" /\ SearchReturned /\ Len(offers) >= 3
    /\ \A b \in TopBadges : Cardinality(Holders(offers, b)) = 1

\* C13: ranking again the list the Ranker has just ranked gives the same
\* order and the same badge on every offer (flights: sort and _add_badges;
\* hotels: _rank_hotels, whatever the review analyses were).
C13_RankerIdempotent ==
    /\ FlightsJoined =>
          LET ranked == RankFlights(MergeAndDeduplicate(all_offers))
          IN  RankFlights(ranked) = ranked
    /\ (op = "hotels" /\ pc = "hotel_analysis" /\ ~ReviewAnalysisRaises(all_offers)) =>
          \A outcomes \in [1..Len(all_offers) -> {"error", "given"}] :
             LET ranked == RankHotels(AddReviewAnalysis(all_offers, outcomes),
                                      cfg.budget, cfg.nights)
             IN  RankHotels(ranked, cfg.budget, cfg.nights) = ranked

\* a ranked flight list in which two offers have the same price
C13_Witness ==
    /\ FlightsJoined
    /\ LET ranked == RankFlights(MergeAndDeduplicate(all_offers))
       IN  \E i, j \in 1..Len(ranked) :
              i < j /\ ranked[i].price_per_person = ranked[j].price_per_person

\* a ranked hotel list of two hotels with different composite scores
C13_HotelWitness ==
    /\ op = "hotels" /\ SearchReturned /\ Len(offers) >= 2
    /\ offers[1].composite_score # offers[2].composite_score

\* C19: every offer a flight, train or bus search returns has a badge,
\* whichever tier produced the list.
C19_EveryOfferBadged ==
    (op \in {"flights", "trains", "buses"} /\ SearchReturned) =>
        \A i \in 1..Len(offers) : offers[i].badge # ""

\* C19, for the lists of the primary tier and for trains and buses
C19_BadgedUnlessGenerativeFlights ==
    (op \in {"flights", "trains", "buses"} /\ SearchReturned
        /\ ~(op = "flights" /\ "generative" \in invoked)) =>
        \A i \in 1..Len(offers) : offers[i].badge # ""

\* C20: in a ranked flight list of at least three offers whose cheapest and
\* fastest offers differ, the offer with the best value score among the
\* other offers has the badge Best Value.
C20_BestValueAmongRest ==
    (op = "flights" /\ SearchReturned /\ invoked = {"primary"} /\ Len(offers) >= 3) =>
        LET c == ArgMin([k \in 1..Len(offers) |-> PriceOf(offers[k])])
            d == ArgMin([k \in 1..Len(offers) |-> DurationOf(offers[k])])
            rest == (1..Len(offers)) \ {c, d}
            best == CHOOSE i \in rest : \A j \in rest :
                        \/ ValueOf(offers[i]) < ValueOf(offers[j])
                        \/ ValueOf(offers[i]) = ValueOf(offers[j]) /\ i <= j
        IN  c # d => offers[best].badge = "Best Value"

----------------------------------------------------------------------------
(* Properties of batch enrichment (C11) *)

\* the batch size of the enrichment in progress
BatchSize == IF pc = "places" THEN PlaceBatchSize ELSE MealBatchSize

\* the number of the batch of item j
BatchNo(j) == (j - 1) \div BatchSize

\* C11: during batch enrichment (3 places, 4 meals at a time) an item whose
\* calls have started belongs to a batch all of whose earlier batches have
\* finished: item k+1 is never in flight together with one of the first k.
C11_BatchBarrier ==
    (op = "modify" /\ pc \in {"places", "meals"}) =>
        \A j, k \in DOMAIN task :
            (task[j] # "idle" /\ BatchNo(k) < BatchNo(j)) => task[k] = "done"

\* the second batch of places is in flight
C11_Witness ==
    /\ op = "modify" /\ pc = "places"
    /\ \E j \in DOMAIN task : task[j] = "pending" /\ BatchNo(j) = 1

\* the second batch of meals is in flight
C11_MealWitness ==
    /\ op = "modify" /\ pc = "meals"
    /\ \E j \in DOMAIN task : task[j] = "pending" /\ BatchNo(j) = 1

----------------------------------------------------------------------------
(* Properties of the hotel budget (C14, C15) *)

\* the nightly price of a provider record is above the budget ceiling
OverBudgetRaw(raw) ==
    /\ raw.price # Absent
    /\ raw.price \div cfg.nights > cfg.budget

\* C14: no stage of a hotel search drops an offer because its nightly price
\* is above the budget ceiling: the adapter returns a candidate for every
\* well-formed over-budget record of the provider's response.
C14_NoBudgetExclusion ==
    (op = "hotels" /\ pc = "hotel_gather" /\ cfg.budget # PyNone) =>
        \A raw \in RawHotels :
            (raw.name # <<>> /\ raw.review_score # PyNone /\ OverBudgetRaw(raw)) =>
                /\ ParseHotelResults(<<raw>>, cfg.nights) # <<>>
                /\ SearchBookingComV2(<<raw>>, cfg.budget, cfg.nights) # <<>>

\* C14, for the records whose nightly price is at most one and a half times
\* the budget
C14_KeptUpToHalfOver ==
    (op = "hotels" /\ pc = "hotel_gather" /\ cfg.budget # PyNone) =>
        \A raw \in RawHotels :
            (raw.name # <<>> /\ raw.review_score # PyNone /\ OverBudgetRaw(raw)
                /\ 2 * (raw.price \div cfg.nights) <= 3 * cfg.budget) =>
                /\ ParseHotelResults(<<raw>>, cfg.nights) # <<>>
                /\ SearchBookingComV2(<<raw>>, cfg.budget, cfg.nights) # <<>>

OverBudget(h) == h.price_total \div cfg.nights > cfg.budget

\* C15: in the ranked list of a hotel search with a budget, no over-budget
\* offer is placed before an offer that is within budget and cheaper.
C15_OverBudgetRanksLower ==
    (op = "hotels" /\ SearchReturned /\ cfg.budget # PyNone) =>
        \A i, j \in 1..Len(offers) :
            (i < j /\ OverBudget(offers[i]) /\ ~OverBudget(offers[j]))
                => offers[j].price_total >= offers[i].price_total

----------------------------------------------------------------------------
(* Properties of the cascade's order (C16) *)

\* the tier a flight or train search is in
TierOf(p) ==
    CASE p = "start" -> 0
      [] p \in {"gather", "train_primary"} -> 1
      [] p \in {"fallback", "train_fallback"} -> 2
      [] OTHER -> 3

\* every primary adapter of the search raised or timed out
AllPrimaryFailed ==
    \/ op = "flights" /\ Range(FlightApis(cfg)) \subseteq raised
    \/ op = "trains" /\ "Rail Info API" \in raised

\* C16: a flight or train search never goes back to an earlier tier; the
\* generative tier is entered at most once, from the primary tier and only
\* when all the primary adapter calls have ended; and when every primary
\* adapter failed, the search ends only after the generative tier was invoked.
C16_CascadeInOrder ==
    [][ (op \in {"flights", "trains"}) =>
          (/\ TierOf(pc') >= TierOf(pc)
           /\ (TierOf(pc') = 2 /\ TierOf(pc) # 2) =>
                 (/\ TierOf(pc) = 1
                  /\ "generative" \notin invoked
                  /\ "generative" \in invoked'
                  /\ (op = "flights" => \A a \in Range(FlightApis(cfg)) : task[a] = "done"))
           /\ ("generative" \in invoked' /\ "generative" \notin invoked) => TierOf(pc') = 2
           /\ (TierOf(pc') = 3 /\ TierOf(pc) # 3 /\ AllPrimaryFailed') =>
                 (TierOf(pc) = 2 /\ "generative" \in invoked)) ]_vars

\* a search of three flight adapters that all failed has ended
C16_Witness ==
    /\ op = "flights" /\ cfg.amadeus /\ pc = "done"
    /\ AllPrimaryFailed
    /\ "generative" \in invoked

----------------------------------------------------------------------------
(* Properties of the adapters' output (C17, C18) *)

\* C17: an adapter returns no offer for a provider record without a price:
\* every price the providers quote is positive, so no collected offer has
\* the price 0 that stands for a missing one (flights: price_per_person;
\* hotels: price_total).
C17_IncompleteDropped ==
    /\ FlightsJoined =>
          \A i \in 1..Len(all_offers) : all_offers[i].price_per_person > 0
    /\ HotelsJoined =>
          \A x \in Range(HotelInputs) : x.price_total > 0

\* C17, for the records whose price is null and for the second hotel adapter
C17_NullPriceDropped ==
    /\ (op = "flights" /\ pc = "gather") =>
          \A raw, other \in RawFlights : \A a \in Range(FlightApis(cfg)) :
              raw.price = PyNone =>
                  ParseFlights(<<raw, other>>, a) = ParseFlights(<<other>>, a)
    /\ HotelsJoined =>
          \A x \in Range(results[HotelApiNames[2]].value) : x.price_total > 0

\* the counts api_stats has for a name
CountsOf(a) == { e[2] : e \in { x \in api_stats : x[1] = a } }

\* C18: after a flight search api_stats has, for every adapter that was
\* invoked, the number of offers it returned (zero included), and a name is
\* in apis_used exactly when its count is greater than zero.
C18_StatsConsistent ==
    (op = "flights" /\ SearchReturned) =>
        /\ \A a \in Range(FlightApis(cfg)) : CountsOf(a) = {Len(results[a].value)}
        /\ "generative" \in invoked => CountsOf("AI Estimate") = {Len(offers)}
        /\ \A e \in api_stats : (e[1] \in Range(apis_used)) <=> (e[2] > 0)

\* C18, for the searches the primary tier answered
C18_PrimaryStatsConsistent ==
    (op = "flights" /\ SearchReturned /\ invoked = {"primary"}) =>
        /\ \A a \in Range(FlightApis(cfg)) : CountsOf(a) = {Len(results[a].value)}
        /\ \A e \in api_stats : (e[1] \in Range(apis_used)) <=> (e[2] > 0)

----------------------------------------------------------------------------
(* Properties of the returned flight list (C25) *)

\* C25: the flight list a search returns is in non-decreasing price order,
\* whichever tier it comes from.
C25_ReturnedSortedByPrice ==
    (op = "flights" /\ SearchReturned) =>
        \A i, j \in 1..Len(offers) :
            i < j => PriceOf(offers[i]) <= PriceOf(offers[j])

\* C25, for the lists of the primary tier
C25_PrimarySortedByPrice ==
    (op = "flights" /\ SearchReturned /\ invoked = {"primary"}) =>
        \A i, j \in 1..Len(offers) :
            i < j => PriceOf(offers[i]) <= PriceOf(offers[j])

----------------------------------------------------------------------------
(* Properties of the meal enrichment (C26) *)

\* _enrich_meals_parallel has applied the restaurants it found
MealsApplied == op = "modify" /\ pc = "done" /\ results # <<>>

\* C26: after meal enrichment every meal slot holds the restaurant that the
\* lookup issued for that slot returned, also when two slots of a day have
\* the same meal type.
C26_SlotHoldsOwnLookup ==
    MealsApplied =>
        LET meals == MealSlots(itinerary)
        IN  \A j \in 1..Len(meals) :
                itinerary[meals[j]].restaurant = <<RestaurantView(results[j])>>

\* C26, for the slots whose day and meal type no other slot has
C26_UniqueSlotHoldsOwnLookup ==
    MealsApplied =>
        LET meals == MealSlots(itinerary)
        IN  \A j \in 1..Len(meals) :
                (\A k \in 1..Len(meals) :
                     MealKey(itinerary[meals[k]]) = MealKey(itinerary[meals[j]]) => k = j)
                => itinerary[meals[j]].restaurant = <<RestaurantView(results[j])>>

----------------------------------------------------------------------------
(* Properties of the Merger's output (C24) *)

\* C24: no two offers of the Merger's output have the same identity key
\* (flights: _merge_and_deduplicate; hotels: the loop of _search_hotels_multi_api).
C24_UniqueKeys ==
    /\ FlightsJoined =>
          LET m == MergeAndDeduplicate(all_offers)
          IN  \A i, j \in 1..Len(m) : FlightKey(m[i]) = FlightKey(m[j]) => i = j
    /\ HotelsJoined =>
          LET m == DedupHotels(HotelInputs)
          IN  \A i, j \in 1..Len(m) : HotelKey(m[i]) = HotelKey(m[j]) => i = j

\* a flight merge of three offers of which two have the same key, the
\* airline written in two ways
C24_Witness ==
    /\ FlightsJoined
    /\ Len(all_offers) = 3 /\ Len(MergeAndDeduplicate(all_offers)) = 2
    /\ \E x, y \in Range(all_offers) :
          FlightKey(x) = FlightKey(y) /\ x.airline # y.airline

\* a hotel de-duplication in which both adapters return the hotel, its name
\* written in two ways
C24_HotelWitness ==
    /\ HotelsJoined
    /\ Len(HotelInputs) = 2 /\ Len(DedupHotels(HotelInputs)) = 1
    /\ HotelInputs[1].name # HotelInputs[2].name

----------------------------------------------------------------------------
(* Properties of the Ranker's tie-break (C22) *)

HotelsRanked == op = "hotels" /\ SearchReturned

\* the position in the list given to the Ranker of the hotel with this name
InputPos(name) == SeenAt([k \in 1..Len(all_offers) |-> all_offers[k].name], name)

\* C22: of two ranked hotels with equal composite score the lower-priced one
\* is first, and of two that have equal prices too the one with the higher
\* review score is first.
C22_TieBreakByPriceThenQuality ==
    HotelsRanked =>
        \A i, j \in 1..Len(offers) :
            (i < j /\ CompositeOf(offers[i]) = CompositeOf(offers[j])) =>
                /\ HotelPriceOf(offers[i]) <= HotelPriceOf(offers[j])
                /\ HotelPriceOf(offers[i]) = HotelPriceOf(offers[j])
                      => offers[i].review_score >= offers[j].review_score

\* C22, the last rule alone: two ranked hotels of the primary tier with equal
\* composite score keep their input order
C22_TiesKeepInputOrder ==
    (HotelsRanked /\ invoked = {"primary"}) =>
        \A i, j \in 1..Len(offers) :
            (i < j /\ CompositeOf(offers[i]) = CompositeOf(offers[j])) =>
                InputPos(offers[i].name) < InputPos(offers[j].name)

----------------------------------------------------------------------------
(* Properties of the badges of the returned list (C21) *)

\* the merged list after "Sort by price and add badges"
Badged == RankFlights(MergeAndDeduplicate(all_offers))

PrimaryReturned == op = "flights" /\ SearchReturned /\ invoked = {"primary"}

\* C21: whenever a flight search awards Cheapest, Fastest or Best Value, the
\* offer that holds the badge is in the list the search returns.
C21_BadgeHoldersReturned ==
    PrimaryReturned =>
        \A b \in TopBadges : \A i \in Holders(Badged, b) : Badged[i] \in Range(offers)

\* C21, for Cheapest alone
C21_CheapestReturned ==
    PrimaryReturned =>
        \A i \in Holders(Badged, "Cheapest") : Badged[i] \in Range(offers)

----------------------------------------------------------------------------
(* Properties of the fan-out's join (C23) *)

\* the adapters' responses in the order of the task list
InLaunchOrder == Concat([i \in 1..Len(FlightApiNames) |-> results[FlightApiNames[i]].value])

\* C23: the merged and sorted flight list a search returns is determined by
\* the adapters' responses alone: it is the ranking of the merge of the
\* responses taken in the order of the task list, whatever the order in which
\* the concurrent adapter calls completed.
C23_CompletionOrderIrrelevant ==
    PrimaryReturned =>
        offers = Take(RankFlights(MergeAndDeduplicate(InLaunchOrder)), TopN)

\* a search in which Booking.com completed before Google Flights and both
\* returned the same flight at the same price
C23_Witness ==
    /\ PrimaryReturned
    /\ completed[1] = "Booking.com"
    /\ \E x \in Range(results["Google Flights"].value) :
          \E y \in Range(results["Booking.com"].value) :
             FlightKey(x) = FlightKey(y) /\ PriceOf(x) = PriceOf(y)

----------------------------------------------------------------------------
(* Properties of a failed modification (C28) *)

\* C28: once the generation of the modified itinerary has failed (the text
\* completion raised or its output did not parse), the stored itinerary of the
\* session does not change and the request ends with success = false.
C28_FailedGenerationReported ==
    [][ (op = "modify" /\ "Replanning" \in raised') =>
            /\ store' = store
            /\ pc' = "done" => ~result'.success ]_vars

\* C28, for the requests that do end with success = false: the stored
\* itinerary does not change
C28_UnsuccessfulLeavesStore ==
    [][ (op = "modify" /\ pc' = "done" /\ ~result'.success) => store' = store ]_vars

----------------------------------------------------------------------------
(* Properties of plan_trip (C30) *)

PlanReturned == op = "plan" /\ pc = "done"

\* C30: plan_trip returns success = true only if the base itinerary was
\* generated and the place enrichment and then the meal enrichment ran to
\* completion; otherwise it returns success = false with a null itinerary and
\* errors that are not empty.  The meal enrichment does not start before the
\* place enrichment is over, and no enrichment starts or runs after a base
\* itinerary generation that failed.
C30_SuccessOnlyAfterEnrichment ==
    op = "plan" =>
        /\ PlanReturned =>
              IF "base" \notin raised /\ {"places", "meals"} \subseteq invoked
              THEN result.success /\ result.itinerary = "set"
              ELSE ~result.success /\ result.itinerary = "null" /\ result.errors # <<>>
        /\ ~PlanReturned => ~result.success /\ result.itinerary = "null"
        /\ "meals" \in invoked => "places" \in invoked
        /\ pc = "meals" => "places" \in invoked
        /\ "base" \in raised =>
              /\ pc \notin {"places", "meals"}
              /\ invoked = {}
              /\ \A j \in DOMAIN task : task[j] # "pending"

\* plan_trip returned success = true after enriching two places and two meals
C30_Witness ==
    /\ PlanReturned /\ result.success
    /\ Len(PlacesToEnrich(itinerary)) = 2 /\ Len(MealSlots(itinerary)) = 2
    /\ {"places", "meals"} \subseteq invoked

\* plan_trip returned after a base itinerary generation that failed
C30_FailureWitness ==
    /\ PlanReturned /\ "base" \in raised
    /\ ~result.success /\ result.errors # <<>>

\* plan_trip returned after the place enrichment raised
C30_EnrichmentWitness ==
    /\ PlanReturned /\ "enrichment" \in raised
    /\ ~result.success /\ result.errors # <<>>

----------------------------------------------------------------------------
(* Properties of concurrent modifications (C29) *)

BothFinished == \A r \in Requests : req[r].pc = "done"

\* C29: when the two modification requests of a session have finished, the
\* stored itinerary has the change of every request that succeeded, however
\* the two requests overlapped.
C29_NoLostUpdate ==
    BothFinished =>
        \A r \in Requests : req[r].success => HasPlace(store, Additions[r])

\* C29, for one request: the itinerary stored when a request finishes has the
\* change of that request
C29_OwnChangeStored ==
    [][ \A r \in Requests :
           (req[r].pc = "enrich" /\ req'[r].pc = "done") =>
               HasPlace(store', Additions[r]) ]_vars

----------------------------------------------------------------------------
(* Properties of repeated enrichment (C27) *)

\* C27: with the providers' responses unchanged, the second run of the
\* enrichment leaves the itinerary as the first run made it.
C27_SecondRunChangesNothing ==
    [][ pc = "once" => itinerary' = itinerary ]_vars

\* C27, for the enrichment of the orchestrator alone
C27_OrchestratorSecondRunChangesNothing ==
    [][ (op = "enrich" /\ pc = "once") => itinerary' = itinerary ]_vars

=============================================================================
